---- MODULE Spec2Model ----
(***************************************************************************)
(* Panel protocol engine of the Gateway firmware: the protocol registry    *)
(* (setProtocolType), the byte source adapter (serialScan), the three      *)
(* byte-stream parsers (serialRxGent, serialRxAdvanced,                    *)
(* serialRxAdvancedAscii) and the forward call (serialTxEventToNimbus).    *)
(* Bytes are the integers 0..255; C integer widths are kept with % 2^w.    *)
(***************************************************************************)
EXTENDS Integers, Sequences, FiniteSets, TLC

VARIABLES
  reg,   \* registry, hardware and configuration: currentId, protocolRxHandler,
         \* pwrEnable, uartOpen, protocolId, verbose, and the call counters
  rx,    \* the globals and function statics of the parsers and the encoder
  env    \* the environment: what the panel and the operator may still send,
         \* and the position of each thread of control

vars == <<reg, rx, env>>

(***************************************************************************)
(* Program constants                                                       *)
(***************************************************************************)
ADVANCED_MIN_LENGTH == 12
ADVANCED_MAX_LENGTH == 108
NUM_ID_CODES == 7
RX_BUFFER_SIZE == 512
ADVANCED_ASCII_MAX_LINES == 8
ADVANCED_ASCII_LINE_LENGTH == 42
ADVANCED_ASCII_MAX_LENGTH == 312
ASCII_ACK == 6
ASCII_NAK == 21
SOM == 254
EOM == 255
CLASH_CODE == 250
PACKET_IDENTITY == 128
NO_MORE_MESSAGES == 240
GENT_MSB_MAX == 18
GENT_EVENT_LENGTH == 59
GENT_BODY_LAST == 56
LF == 10
CR == 13

PROTOCOL_NONE_CONFIGURED == 0
PROTOCOL_GENT == 1
PROTOCOL_KENTEC == 2
PROTOCOL_SIEMENS_ASCII == 3
PROTOCOL_MINERVA_ASCII == 4
PROTOCOL_ADVANCED == 5
PROTOCOL_NOTIFIER == 6
PROTOCOL_GENT_ASCII == 7
PROTOCOL_ZITON == 8
PROTOCOL_RESERVED == 9
PROTOCOL_ADVANCED_ASCII == 10
PROTOCOL_COUNT == 11

Byte == 0..255

Max(a, b) == IF a >= b THEN a ELSE b

(***************************************************************************)
(* Bitwise exclusive or of two bytes (the C operator ^ on uint8_t).        *)
(***************************************************************************)
RECURSIVE XorBits(_, _, _)
XorBits(a, b, n) ==
  IF n = 0 THEN 0
  ELSE (((a % 2) + (b % 2)) % 2) + 2 * XorBits(a \div 2, b \div 2, n - 1)

Xor(a, b) == XorBits(a, b, 8)

(***************************************************************************)
(* The shared receive buffer uint8_t serialRxBuffer[512].  It is zero      *)
(* initialised; the model keeps it up to the highest index written, the    *)
(* bytes above being zero.  Indices are the C indices (from 0).            *)
(***************************************************************************)
BufRead(buf, idx) == IF idx < Len(buf) THEN buf[idx + 1] ELSE 0

BufPut(buf, idx, b) ==
  IF idx < Len(buf) THEN [buf EXCEPT ![idx + 1] = b]
  ELSE [k \in 1..(idx + 1) |-> IF k <= Len(buf) THEN buf[k] ELSE IF k = idx + 1 THEN b ELSE 0]

\* serialRxBuffer[idx] = b.  A write at an index of 512 or more lands outside
\* the array: its effect is undefined, the model records it in overrun and
\* every action stops there.
BufWrite(s, idx, b) ==
  IF idx >= RX_BUFFER_SIZE
  THEN [s EXCEPT !.overrun = TRUE, !.wrMax = Max(@, idx)]
  ELSE [s EXCEPT !.serialRxBuffer = BufPut(@, idx, b), !.wrMax = Max(@, idx)]

\* The raw frame a forward call hands over: serialRxBuffer[0 .. serialRxLength-1]
Frame(s) == [k \in 1..s.serialRxLength |-> BufRead(s.serialRxBuffer, k - 1)]

(***************************************************************************)
(* serialTxEventToNimbus: the forward call.  It counts the event, fills    *)
(* eventMessage and nimbusTransferMessage, issues the next transfer id     *)
(* (uint8_t, wraps), encodes and publishes.  serialLen and transferLen are *)
(* uint8_t.  nFwd, fwdFrame and nPub record the calls and the publishes    *)
(* made while one byte is handled.  The two uint32_t counters cannot reach *)
(* 2^32 in a bounded run and are naturals.                                 *)
(***************************************************************************)
EVENT_TIMESTAMP_LENGTH == 8
TYPE_AND_LENGTH_FIELDS == 4
TRANSFER_HEADER_LENGTH == 12
TRANSFER_TYPE == 131
EVENT_DATA_SIZE == 244

Min(a, b) == IF a <= b THEN a ELSE b

\* eventMessage after Type, Length, SecondFracPart and the memcpy into Data:
\* Data keeps the bytes that fit the field
EventMessageOf(s, serialLen) ==
  [Type |-> s.protocolId, Length |-> <<serialLen, 0, 0>>, SecondFracPart |-> 0,
   Data |-> [k \in 1..Min(s.serialRxLength, EVENT_DATA_SIZE) |->
               BufRead(s.serialRxBuffer, k - 1)]]

TransferMessageOf_EventLengthPlus4(s, serialLen, transferLen) ==
  [Type |-> TRANSFER_TYPE, Length |-> <<serialLen, 0, 0>>,
   uniqueTransferId |-> s.uniqueTransferId, SecondFracPart |-> 0,
   DataLen |-> serialLen]

\* nimbusTransferMessage: the id issued is the counter before its increment;
\* DataLen is the number of bytes of eventMessage.Event copied into Data
TransferMessageOf(s, serialLen, transferLen) ==
  [Type |-> TRANSFER_TYPE, Length |-> <<transferLen, 0, 0>>,
   uniqueTransferId |-> s.uniqueTransferId, SecondFracPart |-> 0,
   DataLen |-> serialLen]

PublishCount_Always(s, success) == s.nPub + 1

\* Particle.publish is called only when the encoding succeeded
PublishCount(s, success) == IF success THEN s.nPub + 1 ELSE s.nPub

\* Base64::encode is a library call: base64Ok is the result it returns
\* uniqueTransferId++ on a uint8_t
NextTransferId_IfPublished(s, success) ==
  IF success THEN (s.uniqueTransferId + 1) % 256 ELSE s.uniqueTransferId

NextTransferId(s, success) == (s.uniqueTransferId + 1) % 256

serialTxEventToNimbus(s) ==
  LET serialLen0  == (s.serialRxLength + EVENT_TIMESTAMP_LENGTH) % 256
      serialLen1  == (serialLen0 + TYPE_AND_LENGTH_FIELDS) % 256
      transferLen == (serialLen1 + TRANSFER_HEADER_LENGTH) % 256
  IN [s EXCEPT !.totalRxEvents = @ + 1,
               !.eventMessage = EventMessageOf(s, serialLen0),
               !.dataOverrun = @ \/ s.serialRxLength > EVENT_DATA_SIZE,
               !.nimbusTransferMessage = TransferMessageOf(s, serialLen1, transferLen),
               !.uniqueTransferId = NextTransferId(s, s.base64Ok),
               !.publishLen = (transferLen + TYPE_AND_LENGTH_FIELDS) % 256,
               !.nPub = PublishCount(s, s.base64Ok),
               !.nFwd = @ + 1,
               !.fwdFrame = Frame(s)]

crc_table_low ==
  <<
       0, 192, 193,   1, 195,   3,   2, 194, 198,   6,   7, 199,   5, 197, 196,   4,
     204,  12,  13, 205,  15, 207, 206,  14,  10, 202, 203,  11, 201,   9,   8, 200,
     216,  24,  25, 217,  27, 219, 218,  26,  30, 222, 223,  31, 221,  29,  28, 220,
      20, 212, 213,  21, 215,  23,  22, 214, 210,  18,  19, 211,  17, 209, 208,  16,
     240,  48,  49, 241,  51, 243, 242,  50,  54, 246, 247,  55, 245,  53,  52, 244,
      60, 252, 253,  61, 255,  63,  62, 254, 250,  58,  59, 251,  57, 249, 248,  56,
      40, 232, 233,  41, 235,  43,  42, 234, 238,  46,  47, 239,  45, 237, 236,  44,
     228,  36,  37, 229,  39, 231, 230,  38,  34, 226, 227,  35, 225,  33,  32, 224,
     160,  96,  97, 161,  99, 163, 162,  98, 102, 166, 167, 103, 165, 101, 100, 164,
     108, 172, 173, 109, 175, 111, 110, 174, 170, 106, 107, 171, 105, 169, 168, 104,
     120, 184, 185, 121, 187, 123, 122, 186, 190, 126, 127, 191, 125, 189, 188, 124,
     180, 116, 117, 181, 119, 183, 182, 118, 114, 178, 179, 115, 177, 113, 112, 176,
      80, 144, 145,  81, 147,  83,  82, 146, 150,  86,  87, 151,  85, 149, 148,  84,
     156,  92,  93, 157,  95, 159, 158,  94,  90, 154, 155,  91, 153,  89,  88, 152,
     136,  72,  73, 137,  75, 139, 138,  74,  78, 142, 143,  79, 141,  77,  76, 140,
      68, 132, 133,  69, 135,  71,  70, 134, 130,  66,  67, 131,  65, 129, 128,  64 >>

crc_table_high ==
  <<
       0, 193, 129,  64,   1, 192, 128,  65,   1, 192, 128,  65,   0, 193, 129,  64,
       1, 192, 128,  65,   0, 193, 129,  64,   0, 193, 129,  64,   1, 192, 128,  65,
       1, 192, 128,  65,   0, 193, 129,  64,   0, 193, 129,  64,   1, 192, 128,  65,
       0, 193, 129,  64,   1, 192, 128,  65,   1, 192, 128,  65,   0, 193, 129,  64,
       1, 192, 128,  65,   0, 193, 129,  64,   0, 193, 129,  64,   1, 192, 128,  65,
       0, 193, 129,  64,   1, 192, 128,  65,   1, 192, 128,  65,   0, 193, 129,  64,
       0, 193, 129,  64,   1, 192, 128,  65,   1, 192, 128,  65,   0, 193, 129,  64,
       1, 192, 128,  65,   0, 193, 129,  64,   0, 193, 129,  64,   1, 192, 128,  65,
       1, 192, 128,  65,   0, 193, 129,  64,   0, 193, 129,  64,   1, 192, 128,  65,
       0, 193, 129,  64,   1, 192, 128,  65,   1, 192, 128,  65,   0, 193, 129,  64,
       0, 193, 129,  64,   1, 192, 128,  65,   1, 192, 128,  65,   0, 193, 129,  64,
       1, 192, 128,  65,   0, 193, 129,  64,   0, 193, 129,  64,   1, 192, 128,  65,
       0, 193, 129,  64,   1, 192, 128,  65,   1, 192, 128,  65,   0, 193, 129,  64,
       1, 192, 128,  65,   0, 193, 129,  64,   0, 193, 129,  64,   1, 192, 128,  65,
       1, 192, 128,  65,   0, 193, 129,  64,   0, 193, 129,  64,   1, 192, 128,  65,
       0, 193, 129,  64,   1, 192, 128,  65,   1, 192, 128,  65,   0, 193, 129,  64 >>

(***************************************************************************)
(* Binary-CRC-Stuffed parser (Advanced BMS)                                *)
(***************************************************************************)
\* idCodeTable: the identifier codes, in table order; Device Status is entry 2
idCodeTable == <<1, 10, 11, 12, 13, 14, 15>>

DEVICE_STATUS_ENTRY == 2

ZeroCounts == [k \in 1..NUM_ID_CODES |-> 0]

\* One pass of the loop body of advancedCrcUpdate, for the byte b
CrcStep(b, crc_hi, crc_lo) ==
  LET table_index == Xor(crc_hi, b)
  IN <<Xor(crc_lo, crc_table_high[table_index + 1]), crc_table_low[table_index + 1]>>

\* advancedCrcUpdate over buff[0 .. count-1], where buff = buf + from: the
\* bytes in order, the first half of the range and then the second (the
\* test on mid makes TLC compute the first half before it goes on)
RECURSIVE advancedCrcUpdate(_, _, _, _, _)
advancedCrcUpdate(buf, from, count, crc_hi, crc_lo) ==
  IF count <= 0 THEN <<crc_hi, crc_lo>>
  ELSE IF count = 1 THEN CrcStep(BufRead(buf, from), crc_hi, crc_lo)
  ELSE LET half == count \div 2
           mid  == advancedCrcUpdate(buf, from, half, crc_hi, crc_lo)
       IN IF mid[1] \in Byte
          THEN advancedCrcUpdate(buf, from + half, count - half, mid[1], mid[2])
          ELSE mid

validateCRC_FromStart(buf, len) ==
  LET crc == advancedCrcUpdate(buf, 0, len - 3, 255, 255)
  IN BufRead(buf, len - 3) = crc[1] /\ BufRead(buf, len - 2) = crc[2]

validateCRC(buf, len) ==
  LET crc == advancedCrcUpdate(buf, 1, len - 4, 255, 255)
  IN BufRead(buf, len - 3) = crc[1] /\ BufRead(buf, len - 2) = crc[2]

\* The table scan of checkPacketFormat: the entry whose code matches, or
\* NUM_ID_CODES + 1 when none does (the C loop leaves i = NUM_ID_CODES)
IdCodeEntry(code) ==
  IF \E k \in 1..NUM_ID_CODES : idCodeTable[k] = code
  THEN CHOOSE k \in 1..NUM_ID_CODES : idCodeTable[k] = code
  ELSE NUM_ID_CODES + 1

\* offset += serialRxBuffer[ offset ] - 1, offset being a uint8_t
NextOffset(buf, offset) == (offset + BufRead(buf, offset) + 255) % 256

\* The do-while loop of checkPacketFormat, one iteration per call.  offset and
\* maxOffset are uint8_t.  seen holds the offsets at which an iteration has
\* started: the iteration depends on the offset alone, so meeting one again
\* means that the loop never ends ("hang").  An iteration that starts at
\* offset has read its identifier code at offset - 1: codeReads are the
\* indices the codes were read from, endAt the index of the code 0xF0 that
\* ended the scan (-1 when none did).
RECURSIVE ChainScan(_, _, _, _, _, _)
ChainScan(buf, code, offset, maxOffset, counts, seen) ==
  LET e == IdCodeEntry(code)
      reads == {(o + 255) % 256 : o \in seen}
  IN IF e > NUM_ID_CODES
     THEN [result |-> "false", counts |-> counts, codeReads |-> reads, endAt |-> -1]
     ELSE LET counts1 == [counts EXCEPT ![e] = (@ + 1) % 256]
              offset1 == NextOffset(buf, offset)
          IN IF offset1 > maxOffset
             THEN [result |-> "false", counts |-> counts1, codeReads |-> reads,
                   endAt |-> -1]
             ELSE LET code1   == BufRead(buf, offset1)
                      offset2 == (offset1 + 1) % 256
                  IN IF code1 = NO_MORE_MESSAGES
                     THEN [result |-> "true", counts |-> counts1,
                           codeReads |-> reads \cup {offset1}, endAt |-> offset1]
                     ELSE IF offset2 \in seen
                     THEN [result |-> "hang", counts |-> counts1,
                           codeReads |-> reads \cup {offset1}, endAt |-> -1]
                     ELSE ChainScan(buf, code1, offset2, maxOffset, counts1,
                                    seen \cup {offset2})

checkPacketFormat_KeepCounts(s) ==
  ChainScan(s.serialRxBuffer, BufRead(s.serialRxBuffer, 5), 6,
            (s.serialRxLength + 252) % 256, s.idCount, {6})

checkPacketFormat(s) ==
  ChainScan(s.serialRxBuffer, BufRead(s.serialRxBuffer, 5), 6,
            (s.serialRxLength + 252) % 256, ZeroCounts, {6})

\* The test that validateAdvancedBmsPacket ends with, "hang" if it never ends
FormatVerdict(v) ==
  [result |-> v.result, counts |-> v.counts, codeReads |-> v.codeReads,
   endAt |-> v.endAt,
   why |-> CASE v.result = "true" -> "ok"
             [] v.result = "false" -> "format"
             [] OTHER -> "hang"]

validateAdvancedBmsPacket_HeaderOnly(s) ==
  IF s.serialRxLength < ADVANCED_MIN_LENGTH - 3
  THEN [result |-> "false", counts |-> s.idCount, codeReads |-> {},
        endAt |-> -1, why |-> "length"]
  ELSE IF ~validateCRC(s.serialRxBuffer, s.serialRxLength)
  THEN [result |-> "false", counts |-> s.idCount, codeReads |-> {},
        endAt |-> -1, why |-> "crc"]
  ELSE IF BufRead(s.serialRxBuffer, 1) # PACKET_IDENTITY
  THEN [result |-> "false", counts |-> s.idCount, codeReads |-> {},
        endAt |-> -1, why |-> "identity"]
  ELSE FormatVerdict(checkPacketFormat(s))

\* validateAdvancedBmsPacket: result "true", "false" or "hang", the test that
\* decided it, and the identifier-code counts it leaves in idCodeTable
validateAdvancedBmsPacket(s) ==
  IF s.serialRxLength < ADVANCED_MIN_LENGTH
  THEN [result |-> "false", counts |-> s.idCount, codeReads |-> {},
        endAt |-> -1, why |-> "length"]
  ELSE IF ~validateCRC(s.serialRxBuffer, s.serialRxLength)
  THEN [result |-> "false", counts |-> s.idCount, codeReads |-> {},
        endAt |-> -1, why |-> "crc"]
  ELSE IF BufRead(s.serialRxBuffer, 1) # PACKET_IDENTITY
  THEN [result |-> "false", counts |-> s.idCount, codeReads |-> {},
        endAt |-> -1, why |-> "identity"]
  ELSE FormatVerdict(checkPacketFormat(s))

\* serialRxBuffer [serialRxLength++] = b
RxAppend(s, b) ==
  BufWrite([s EXCEPT !.serialRxLength = (@ + 1) % 65536], s.serialRxLength, b)

advancedPacketReceptionError_Silent(s, verbose) == s

advancedPacketReceptionError(s, verbose) ==
  IF verbose THEN serialTxEventToNimbus(s) ELSE s

\* Dump everything and start again
AdvancedDiscard(s, verbose) ==
  LET s1 == advancedPacketReceptionError(s, verbose)
  IN [s1 EXCEPT !.totalDiscardedBytes = @ + s.serialRxLength,
                !.serialRxState = 0]

ClashRestore_AsReceived(rxChar) == rxChar

\* The restored byte of a clash-code pair: rxChar + 0xfa as a uint8_t
ClashRestore(rxChar) == (rxChar + CLASH_CODE) % 256

ForwardValidated_Always(verbose, counts) == TRUE

\* A packet confirmed OK is forwarded in verbose mode or when it holds a
\* Device Status message
ForwardValidated(verbose, counts) == verbose \/ counts[DEVICE_STATUS_ENTRY] > 0

DiscardedAtEnd_BeforeSentinel(s) == s.totalDiscardedBytes + s.serialRxLength - 1

\* totalDiscardedBytes += serialRxLength, for a packet with errors
DiscardedAtEnd(s) == s.totalDiscardedBytes + s.serialRxLength

\* case 1 with rxChar == 0xff: the end-of-frame byte
AdvancedEndOfFrame(s, rxChar, verbose) ==
  LET s1 == RxAppend(s, rxChar)
      v  == validateAdvancedBmsPacket(s1)
      s2 == [s1 EXCEPT !.idCount = v.counts, !.hung = (v.result = "hang"),
                       !.validated = v.why, !.codeReads = v.codeReads,
                       !.endAt = v.endAt]
      s3 == CASE v.result = "true" ->
                   IF ForwardValidated(verbose, s2.idCount)
                   THEN serialTxEventToNimbus(s2) ELSE s2
              [] v.result = "false" ->
                   IF verbose THEN serialTxEventToNimbus(s2)
                   ELSE [s2 EXCEPT !.totalDiscardedBytes = DiscardedAtEnd(s2)]
              [] OTHER -> s2
  IN IF v.result = "hang" THEN s3 ELSE [s3 EXCEPT !.serialRxState = 0]

serialRxAdvanced(s, rxChar, verbose) ==
  CASE s.serialRxState = 0 ->
         IF rxChar = SOM
         THEN BufWrite([s EXCEPT !.serialRxLength = 1, !.serialRxState = 1], 0, rxChar)
         ELSE s
    [] s.serialRxState = 1 ->
         IF rxChar = EOM THEN AdvancedEndOfFrame(s, rxChar, verbose)
         ELSE IF rxChar = CLASH_CODE THEN [s EXCEPT !.serialRxState = 2]
         ELSE IF rxChar > CLASH_CODE /\ rxChar <= SOM THEN AdvancedDiscard(s, verbose)
         ELSE IF s.serialRxLength >= ADVANCED_MAX_LENGTH THEN AdvancedDiscard(s, verbose)
         ELSE RxAppend(s, rxChar)
    [] s.serialRxState = 2 ->
         IF rxChar > 5 THEN AdvancedDiscard(s, verbose)
         ELSE [RxAppend(s, ClashRestore(rxChar)) EXCEPT !.serialRxState = 1]
    [] OTHER -> [s EXCEPT !.serialRxState = 0]

\* advancedAddClashCodes: in is the frame (pbuf_in, *pbuf_len = Len(in)); the
\* result is the stuffed frame (pbuf_out, the updated *pbuf_len its length)
RECURSIVE AddClashBody(_, _, _)
AddClashBody(in, k, last) ==
  IF k > last THEN << >>
  ELSE (IF in[k] >= CLASH_CODE THEN <<CLASH_CODE, in[k] - CLASH_CODE>> ELSE <<in[k]>>)
       \o AddClashBody(in, k + 1, last)

advancedAddClashCodes(in) ==
  <<in[1]>> \o AddClashBody(in, 2, Len(in) - 1) \o <<in[Len(in)]>>

(***************************************************************************)
(* Binary-Checksummed parser (Gent)                                        *)
(***************************************************************************)
rxGentValidateEventPair_AnyLsb(buf) == BufRead(buf, 0) \in {0, 2, 4, 5, 7, 9, 10, 18}

rxGentValidateEventPair(buf) ==
  LET msb == BufRead(buf, 0)
      lsb == BufRead(buf, 1)
  IN CASE msb = 0 -> (lsb >= 1 /\ lsb <= 6) \/ lsb = ASCII_NAK
       [] msb = 2 -> lsb = 1 \/ lsb = 2
       [] msb \in {4, 5, 7, 9, 10, 18} -> TRUE
       [] OTHER -> FALSE

\* Gent ACK and NAK packets are 4 bytes: the test made on the second byte
GentIsShortPacket(rxChar) == rxChar = ASCII_ACK \/ rxChar = ASCII_NAK

\* serialRxBuffer [i++] = b
GentStore(s, b) == BufWrite([s EXCEPT !.i = (@ + 1) % 256], s.i, b)

GentAddChecksum(s, rxChar) == [s EXCEPT !.rxChecksum = (@ + rxChar) % 65536]

\* The two comparisons of the received checksum bytes
GentChecksumHiOk_Always(s, rxChar) == TRUE

GentChecksumHiOk(s, rxChar) == rxChar = (s.rxChecksum \div 256) % 256

GentChecksumLoOk_Always(s, rxChar) == TRUE

GentChecksumLoOk(s, rxChar) == rxChar = s.rxChecksum % 256

GentIsEventPacket_Any(s) == TRUE

\* Ignore the short ACK/NAK packets (4 bytes), process the event packets
GentIsEventPacket(s) == s.i = GENT_EVENT_LENGTH

serialProcessGent_Twice(s) == serialTxEventToNimbus(serialTxEventToNimbus(s))

serialProcessGent(s) == serialTxEventToNimbus(s)

GentMsbOutOfRange_Above127(rxChar) == rxChar > 127

\* Event MSB out of range: definitely not a valid start byte
GentMsbOutOfRange(rxChar) == rxChar > GENT_MSB_MAX

\* The byte received is not yet the last byte of the body
GentBodyIncomplete_OneMore(s) == s.i <= s.rxExpectedLen

GentBodyIncomplete(s) == s.i < s.rxExpectedLen

serialRxGent(s, rxChar) ==
  CASE s.serialRxState = 0 ->
         IF GentMsbOutOfRange(rxChar) THEN s
         ELSE [GentStore([s EXCEPT !.i = 0, !.serialRxState = 1], rxChar)
                 EXCEPT !.rxChecksum = rxChar]
    [] s.serialRxState = 1 ->
         LET s1 == GentAddChecksum(GentStore(s, rxChar), rxChar)
         IN IF rxGentValidateEventPair(s1.serialRxBuffer)
            THEN IF GentIsShortPacket(rxChar)
                 THEN [s1 EXCEPT !.serialRxState = 3]
                 ELSE [s1 EXCEPT !.rxExpectedLen = GENT_BODY_LAST, !.serialRxState = 2]
            ELSE [s1 EXCEPT !.serialRxState = 0]
    [] s.serialRxState = 2 ->
         IF GentBodyIncomplete(s)
         THEN GentAddChecksum(GentStore(s, rxChar), rxChar)
         ELSE GentAddChecksum(GentStore([s EXCEPT !.serialRxState = 3], rxChar), rxChar)
    [] s.serialRxState = 3 ->
         IF GentChecksumHiOk(s, rxChar)
         THEN GentStore([s EXCEPT !.serialRxState = 4], rxChar)
         ELSE [s EXCEPT !.serialRxState = 0]
    [] s.serialRxState = 4 ->
         IF GentChecksumLoOk(s, rxChar)
         THEN LET s1 == [GentStore(s, rxChar) EXCEPT !.csOk = TRUE]
                  s2 == IF GentIsEventPacket(s1)
                        THEN serialProcessGent([s1 EXCEPT !.serialRxLength = s1.i])
                        ELSE s1
              IN [s2 EXCEPT !.serialRxState = 0]
         ELSE [s EXCEPT !.serialRxState = 0]
    [] OTHER -> s

(***************************************************************************)
(* Line-Oriented-ASCII parser (Advanced ASCII).  lineCount, lineCharCount  *)
(* and previousChar are uint8_t function statics.                          *)
(***************************************************************************)
AsciiCount(s) == [s EXCEPT !.lineCharCount = (@ + 1) % 256]

\* A blank line: exactly two characters <cr><lf>
AsciiBlankLine(s) == s.lineCharCount = 2 /\ s.previousChar = CR

AsciiReset_KeepLength(s) == [s EXCEPT !.lineCharCount = 0, !.serialRxState = 0]

\* Get ready for next message
AsciiReset(s) == [s EXCEPT !.lineCharCount = 0, !.serialRxLength = 0, !.serialRxState = 0]

\* Wait for the blank line that denotes the end of this message
AsciiAbort(s) == [s EXCEPT !.lineCharCount = 0, !.serialRxState = 2]

\* A line of the message being collected has more than <cr><lf> in it
AsciiLineCollected_FourOrMore(lineCharCount) == lineCharCount > 3

AsciiLineCollected(lineCharCount) == lineCharCount > 2

\* The message has more lines than a message may have
AsciiTooManyLines_Nine(lineCount) == lineCount > ADVANCED_ASCII_MAX_LINES + 1

AsciiTooManyLines(lineCount) == lineCount > ADVANCED_ASCII_MAX_LINES

serialRxAdvancedAscii(s, rxChar) ==
  CASE s.serialRxState = 0 ->
         LET s1 == RxAppend(AsciiCount(s), rxChar)
             s2 == IF rxChar = LF
                   THEN IF s1.lineCharCount > 2
                        THEN [s1 EXCEPT !.lineCount = 1, !.lineCharCount = 0,
                                        !.serialRxState = 1]
                        ELSE [s1 EXCEPT !.serialRxLength = 0, !.lineCharCount = 0]
                   ELSE IF s1.lineCharCount > ADVANCED_ASCII_LINE_LENGTH
                        THEN [s1 EXCEPT !.lineCharCount = 0, !.serialRxLength = 0]
                        ELSE s1
         IN [s2 EXCEPT !.previousChar = rxChar]
    [] s.serialRxState = 1 ->
         LET s1 == RxAppend(AsciiCount(s), rxChar)
         IN IF rxChar = LF
            THEN IF AsciiLineCollected(s1.lineCharCount)
                 THEN LET s2 == [s1 EXCEPT !.lineCount = (@ + 1) % 256]
                      IN IF AsciiTooManyLines(s2.lineCount)
                         THEN AsciiAbort(s2)   \* break: previousChar is not updated
                         ELSE [s2 EXCEPT !.lineCharCount = 0, !.previousChar = rxChar]
                 ELSE IF AsciiBlankLine(s1)
                      THEN [AsciiReset(serialTxEventToNimbus(s1)) EXCEPT !.previousChar = rxChar]
                      ELSE [AsciiAbort(s1) EXCEPT !.previousChar = rxChar]
            ELSE IF s1.lineCharCount > ADVANCED_ASCII_LINE_LENGTH
                 THEN [AsciiAbort(s1) EXCEPT !.previousChar = rxChar]
            ELSE IF s1.serialRxLength >= ADVANCED_ASCII_MAX_LENGTH
                 THEN [AsciiAbort(s1) EXCEPT !.previousChar = rxChar]
            ELSE [s1 EXCEPT !.previousChar = rxChar]
    [] s.serialRxState = 2 ->
         LET s1 == AsciiCount(s)
             s2 == IF rxChar = LF
                   THEN IF s1.lineCharCount > 2 THEN [s1 EXCEPT !.lineCharCount = 0]
                        ELSE IF AsciiBlankLine(s1) THEN AsciiReset(s1)
                        ELSE s1
                   ELSE s1
         IN [s2 EXCEPT !.previousChar = rxChar]
    [] OTHER -> AsciiReset(s)

(***************************************************************************)
(* Protocol registry: protocolHandlerTable and setProtocolType             *)
(***************************************************************************)
ProtocolIds == 0..(PROTOCOL_COUNT - 1)

\* The table entries whose start / stop handler is not nullptr
HasStartHandler(id) == id \notin {PROTOCOL_NONE_CONFIGURED, PROTOCOL_RESERVED}

HasStopHandler(id) == id \notin {PROTOCOL_NONE_CONFIGURED, PROTOCOL_RESERVED}

\* The byte-handler a start handler assigns; "none" for the start handlers
\* with an empty body (Kentec, Siemens, Minerva, Notifier, Gent ASCII, Ziton)
RxHandlerOf(id) ==
  CASE id = PROTOCOL_GENT -> "serialRxGent"
    [] id = PROTOCOL_ADVANCED -> "serialRxAdvanced"
    [] id = PROTOCOL_ADVANCED_ASCII -> "serialRxAdvancedAscii"
    [] OTHER -> "none"

\* serialStartGent, serialStartAdvanced, serialStartAdvancedASCII and the
\* empty start handlers.  log records the handler calls of one switch.
protocolStartHandler(r, id) ==
  LET r1 == [r EXCEPT !.log = Append(@, <<"start", id>>),
                      !.running = Append(@, id)]
  IN IF RxHandlerOf(id) = "none" THEN r1
     ELSE [r1 EXCEPT !.protocolRxHandler = RxHandlerOf(id),
                     !.pwrEnable = "HIGH",
                     !.uartOpen = TRUE]

\* The sequence q without the first occurrence of x
RECURSIVE RemoveOne(_, _)
RemoveOne(q, x) ==
  IF q = << >> THEN << >>
  ELSE IF Head(q) = x THEN Tail(q)
  ELSE <<Head(q)>> \o RemoveOne(Tail(q), x)

\* serialStopGent, serialStopAdvanced, serialStopAdvancedASCII and the empty
\* stop handlers
protocolStopHandler(r, id) ==
  LET r1 == [r EXCEPT !.log = Append(@, <<"stop", id>>),
                      !.running = RemoveOne(@, id)]
  IN IF RxHandlerOf(id) = "none" THEN r1
     ELSE [r1 EXCEPT !.protocolRxHandler = "null",
                     !.uartOpen = FALSE,
                     !.pwrEnable = "LOW"]

\* What a user of the registry can observe of it
Observable(r) ==
  [currentId |-> r.currentId, protocolRxHandler |-> r.protocolRxHandler,
   pwrEnable |-> r.pwrEnable, uartOpen |-> r.uartOpen]

StopPrevious(r) ==
  IF HasStopHandler(r.currentId) THEN protocolStopHandler(r, r.currentId) ELSE r

StartRequested_OnlyIfNew(r, Id) ==
  IF HasStartHandler(Id) /\ Id # r.currentId THEN protocolStartHandler(r, Id) ELSE r

StartRequested(r, Id) ==
  IF HasStartHandler(Id) THEN protocolStartHandler(r, Id) ELSE r

\* The bookkeeping of one call.  prevCall and lastCall keep the last two
\* calls: the id requested, the id selected before it, the handler calls made
\* and the state left; fresh marks a parser installed and not yet given a byte.
RecordCall(r, r3, Id) ==
  [r3 EXCEPT !.prevCall = r.lastCall,
             !.lastCall = [n |-> r.lastCall.n + 1, id |-> Id, before |-> r.currentId,
                           log |-> r3.log, after |-> Observable(r3)],
             !.fresh = (r3.protocolRxHandler # "null")]

setProtocolType_SkipSame(r, Id) ==
  LET r0 == [r EXCEPT !.log = << >>]
      r1 == IF Id = r.currentId THEN r0 ELSE StopPrevious(r0)
      r2 == StartRequested(r1, Id)
  IN RecordCall(r, [r2 EXCEPT !.currentId = Id], Id)

setProtocolType(r, Id) ==
  LET r0 == [r EXCEPT !.log = << >>]
      r1 == StopPrevious(r0)
      r2 == StartRequested(r1, Id)
  IN RecordCall(r, [r2 EXCEPT !.currentId = Id], Id)

(***************************************************************************)
(* Byte dispatch: protocolRxHandler ( rxChar )                             *)
(***************************************************************************)
\* The per-byte records are cleared when a handler is entered; protocolId is
\* particleEepromData.protocolId as the handler reads it
RxEnter(s, cfg) ==
  [s EXCEPT !.nFwd = 0, !.nPub = 0, !.wrMax = -1, !.fwdFrame = << >>, !.csOk = FALSE,
            !.validated = "no", !.codeReads = {}, !.endAt = -1,
            !.protocolId = cfg.protocolId]

\* cfg is particleEepromData
protocolRxHandler(h, s, rxChar, cfg) ==
  CASE h = "serialRxGent" -> serialRxGent(RxEnter(s, cfg), rxChar)
    [] h = "serialRxAdvanced" -> serialRxAdvanced(RxEnter(s, cfg), rxChar, cfg.verbose)
    [] h = "serialRxAdvancedAscii" -> serialRxAdvancedAscii(RxEnter(s, cfg), rxChar)
    [] OTHER -> s

\* Neither a write outside an array nor a handler that never returns has
\* happened: after either nothing more is defined
Defined == ~rx.overrun /\ ~rx.hung /\ ~rx.dataOverrun

(***************************************************************************)
(* Initial state: the zero-initialised globals, uniqueTransferId = 1       *)
(***************************************************************************)
RxInit ==
  [serialRxState |-> 0, serialRxLength |-> 0, serialRxBuffer |-> << >>,
   i |-> 0, rxExpectedLen |-> 0, rxChecksum |-> 0,
   lineCount |-> 0, lineCharCount |-> 0, previousChar |-> 0,
   idCount |-> ZeroCounts,
   totalDiscardedBytes |-> 0, totalRxEvents |-> 0, uniqueTransferId |-> 1,
   eventMessage |-> [Type |-> 0, Length |-> <<0, 0, 0>>, SecondFracPart |-> 0,
                     Data |-> << >>],
   nimbusTransferMessage |-> [Type |-> 0, Length |-> <<0, 0, 0>>, uniqueTransferId |-> 0,
                              SecondFracPart |-> 0, DataLen |-> 0],
   publishLen |-> 0, protocolId |-> 0, base64Ok |-> TRUE,
   nFwd |-> 0, nPub |-> 0, wrMax |-> -1, fwdFrame |-> << >>, csOk |-> FALSE,
   validated |-> "no", codeReads |-> {}, endAt |-> -1,
   overrun |-> FALSE, hung |-> FALSE, dataOverrun |-> FALSE]

NoCall == [n |-> 0, id |-> 0, before |-> 0, log |-> << >>,
           after |-> [currentId |-> 0, protocolRxHandler |-> "null",
                      pwrEnable |-> "LOW", uartOpen |-> FALSE]]

\* The configuration read from the EEPROM: any protocol id, verbose on or off
RegInit(pid, verbose) ==
  [currentId |-> 0, protocolRxHandler |-> "null", pwrEnable |-> "LOW",
   uartOpen |-> FALSE, protocolId |-> pid, verbose |-> verbose,
   log |-> << >>, running |-> << >>, fresh |-> FALSE,
   prevCall |-> NoCall, lastCall |-> NoCall]

\* setup(): isolated power on, then the configured protocol is started
setupRegistry(r) == setProtocolType([r EXCEPT !.pwrEnable = "HIGH"], r.protocolId)

\* at_pspt_CmdHandler, AT_TYPE_WRITE with a valid id
atPsptWrite(r, id) == setProtocolType([r EXCEPT !.protocolId = id], id)

(***************************************************************************)
(* Spec: the registry and the byte dispatch in the single thread of        *)
(* loop(): setup(), then cliScan() (an AT+PSPT write switches the          *)
(* protocol) and serialScan() (one byte to the installed handler).         *)
(***************************************************************************)
MaxSwitch == 2
MaxBytes == 2

\* Bytes the panel may send: a Gent event MSB, a letter, <lf>, <cr>, the clash
\* code, the start and the end sentinel
PanelBytes == {4, 65, LF, CR, CLASH_CODE, SOM, EOM}

Init ==
  /\ \E pid \in ProtocolIds, verbose \in BOOLEAN : reg = RegInit(pid, verbose)
  /\ rx = RxInit
  /\ env = [pc |-> "boot", switches |-> 0, bytes |-> 0]

setup ==
  /\ env.pc = "boot"
  /\ reg' = setupRegistry(reg)
  /\ env' = [env EXCEPT !.pc = "loop"]
  /\ UNCHANGED rx

\* cliScan() receiving the line AT+PSPT=<id>
cliScan ==
  /\ env.pc = "loop" /\ Defined
  /\ env.switches < MaxSwitch
  /\ \E id \in ProtocolIds : reg' = atPsptWrite(reg, id)
  /\ env' = [env EXCEPT !.switches = @ + 1]
  /\ UNCHANGED rx

\* serialScan() with a byte available on Serial1
serialScan ==
  /\ env.pc = "loop" /\ Defined
  /\ reg.uartOpen
  /\ env.bytes < MaxBytes
  /\ \E rxChar \in PanelBytes :
       rx' = protocolRxHandler(reg.protocolRxHandler, rx, rxChar, reg)
  /\ reg' = [reg EXCEPT !.fresh = FALSE]
  /\ env' = [env EXCEPT !.bytes = @ + 1]

Next == setup \/ cliScan \/ serialScan

Spec == Init /\ [][Next]_vars


(***************************************************************************)
(* SpecFuzz: one parser, installed by setup(), fed by serialScan() with    *)
(* what the panel may send: at most MaxFuzz choices, each a single byte    *)
(* or a run of bytes delivered one per poll.                               *)
(***************************************************************************)
MaxFuzz == 3

Zeros(n) == [k \in 1..n |-> 0]

RECURSIVE Repeat(_, _)
Repeat(pat, n) == IF n = 0 THEN << >> ELSE pat \o Repeat(pat, n - 1)

\* A well-formed frame: header, payload, terminator, the CRC of these and the
\* end sentinel
AdvancedFrame(payload) ==
  LET body == <<PACKET_IDENTITY, 0, 0, 1>> \o payload \o <<NO_MORE_MESSAGES>>
      crc  == advancedCrcUpdate(<<SOM>> \o body, 1, Len(body), 255, 255)
  IN <<SOM>> \o body \o <<crc[1], crc[2], EOM>>

\* The frame as the panel sends it, with the clash codes added
AdvancedPacket(payload) == advancedAddClashCodes(AdvancedFrame(payload))

\* The single bytes offered to each parser.  The Gent sender may also send
\* the two bytes of the checksum of what it has sent so far.
FuzzBytes(h, s) ==
  CASE h = "serialRxGent" ->
         {0, 1, 4, ASCII_ACK, GENT_MSB_MAX + 1,
          (s.rxChecksum \div 256) % 256, s.rxChecksum % 256}
    [] h = "serialRxAdvanced" ->
         {0, 5, 6, PACKET_IDENTITY, CLASH_CODE, CLASH_CODE + 1, SOM, EOM}
    [] h = "serialRxAdvancedAscii" -> {65, CR, LF}
    [] OTHER -> {}

\* The runs offered to each parser: an event-code pair with the rest of a
\* 57-byte Gent body; plain bodies that reach the length bounds of the
\* Advanced parser, a few clash-code pairs, a packet with one Device
\* Status message and one with a Node Status message; lines, too many lines, a line
\* that is too long and a message that is too long for the ASCII parser.
FuzzRuns(h) ==
  CASE h = "serialRxGent" -> {<<4, 1>> \o Zeros(GENT_BODY_LAST - 1), Zeros(GENT_EVENT_LENGTH)}
    [] h = "serialRxAdvanced" ->
         {Zeros(ADVANCED_MIN_LENGTH - 2), Zeros(ADVANCED_MAX_LENGTH - 1),
          Repeat(<<CLASH_CODE, 0>>, 3),
          AdvancedPacket(<<10, 3, 1>>), AdvancedPacket(<<11, 3, 1>>)}
    [] h = "serialRxAdvancedAscii" ->
         {<<65, CR, LF>>,
          Repeat(<<65, CR, LF>>, ADVANCED_ASCII_MAX_LINES),
          [k \in 1..(ADVANCED_ASCII_LINE_LENGTH + 1) |-> 65],
          Repeat([k \in 1..ADVANCED_ASCII_LINE_LENGTH |->
                    IF k = ADVANCED_ASCII_LINE_LENGTH THEN LF
                    ELSE IF k = ADVANCED_ASCII_LINE_LENGTH - 1 THEN CR ELSE 65],
                 ADVANCED_ASCII_MAX_LINES - 1)}
    [] OTHER -> {}

\* The next byte and the sender's state after it
FuzzNext(e, h, s) ==
  IF e.run # << >>
  THEN {<<Head(e.run), [e EXCEPT !.run = Tail(@)]>>}
  ELSE IF e.left = 0 THEN {}
  ELSE {<<b, [e EXCEPT !.left = @ - 1]>> : b \in FuzzBytes(h, s)}
       \cup {<<Head(r), [e EXCEPT !.left = @ - 1, !.run = Tail(r)]>> : r \in FuzzRuns(h)}

InitFuzz ==
  /\ \E pid \in {PROTOCOL_GENT, PROTOCOL_ADVANCED, PROTOCOL_ADVANCED_ASCII},
        verbose \in BOOLEAN : reg = setupRegistry(RegInit(pid, verbose))
  /\ rx = RxInit
  /\ env = [left |-> MaxFuzz, run |-> << >>]

serialScanFuzz ==
  /\ Defined
  /\ \E c \in FuzzNext(env, reg.protocolRxHandler, rx) :
       /\ rx' = protocolRxHandler(reg.protocolRxHandler, rx, c[1], reg)
       /\ env' = c[2]
  /\ reg' = [reg EXCEPT !.fresh = FALSE]

NextFuzz == serialScanFuzz

SpecFuzz == InitFuzz /\ [][NextFuzz]_vars


(***************************************************************************)
(* SpecStuffed: the Advanced parser fed one frame that the sender never    *)
(* ends: the start sentinel, plain body bytes, then clash-code pairs, with *)
(* the end sentinel possible at any point.                                 *)
(***************************************************************************)
\* The bytes the sender may send next: the start sentinel, then plain bytes
\* (the first MaxPlain of the body only), clash-code pairs or the end
MaxPlain == 1

StuffedNext(e, s) ==
  CASE e.phase = "start" -> {SOM}
    [] e.phase = "done" -> {}
    [] s.serialRxState = 2 -> {0}
    [] s.serialRxLength <= MaxPlain -> {0, CLASH_CODE, EOM}
    [] OTHER -> {CLASH_CODE, EOM}

StuffedPhase(e, b) ==
  CASE b = SOM -> "body"
    [] b = EOM -> "done"
    [] OTHER -> e.phase

InitStuffed ==
  /\ \E verbose \in BOOLEAN : reg = setupRegistry(RegInit(PROTOCOL_ADVANCED, verbose))
  /\ rx = RxInit
  /\ env = [phase |-> "start"]

serialScanStuffed ==
  /\ Defined
  /\ \E rxChar \in StuffedNext(env, rx) :
       /\ rx' = protocolRxHandler(reg.protocolRxHandler, rx, rxChar, reg)
       /\ env' = [env EXCEPT !.phase = IF rx'.serialRxState = 0 THEN "done"
                                       ELSE StuffedPhase(env, rxChar)]
  /\ reg' = [reg EXCEPT !.fresh = FALSE]

NextStuffed == serialScanStuffed

SpecStuffed == InitStuffed /\ [][NextStuffed]_vars

(***************************************************************************)
(* SpecRoundTrip: a frame (0xFE, body, 0xFF) is given to                   *)
(* advancedAddClashCodes and the result is fed to the Advanced parser,     *)
(* one byte per poll, from its initial state.                              *)
(***************************************************************************)
MaxBody == 2

\* The body bytes tried: plain ones and every byte that needs a clash code
BodyBytes == {0, PACKET_IDENTITY, CLASH_CODE - 1} \cup (CLASH_CODE..EOM)

RECURSIVE BodiesOfLen(_)
BodiesOfLen(n) ==
  IF n = 0 THEN {<< >>}
  ELSE {<<b>> \o t : b \in BodyBytes, t \in BodiesOfLen(n - 1)}

Bodies == UNION {BodiesOfLen(n) : n \in 0..MaxBody}

\* The frames: a short body alone, or after the plain bytes that make the
\* frame ADVANCED_MAX_LENGTH bytes long; and two well-formed frames
RoundTripFrames ==
  {<<SOM>> \o body \o <<EOM>> : body \in Bodies}
    \cup {<<SOM>> \o Zeros(ADVANCED_MAX_LENGTH - 2 - Len(body)) \o body \o <<EOM>> :
            body \in Bodies}
    \cup {AdvancedFrame(<<10, 3, 1>>), AdvancedFrame(<<11, 3, CLASH_CODE + 1>>)}

InitRoundTrip ==
  /\ \E verbose \in BOOLEAN : reg = setupRegistry(RegInit(PROTOCOL_ADVANCED, verbose))
  /\ rx = RxInit
  /\ \E F \in RoundTripFrames : env = [pc |-> "encode", frame |-> F, out |-> << >>, pos |-> 0]

\* advancedAddClashCodes ( frame, out, &len )
addClashCodes ==
  /\ env.pc = "encode"
  /\ env' = [env EXCEPT !.pc = "feed", !.out = advancedAddClashCodes(env.frame)]
  /\ UNCHANGED <<reg, rx>>

serialScanRoundTrip ==
  /\ env.pc = "feed"
  /\ env.pos < Len(env.out)
  /\ reg.uartOpen
  /\ rx' = protocolRxHandler(reg.protocolRxHandler, rx, env.out[env.pos + 1], reg)
  /\ env' = [env EXCEPT !.pos = @ + 1]
  /\ reg' = [reg EXCEPT !.fresh = FALSE]

NextRoundTrip == addClashCodes \/ serialScanRoundTrip

SpecRoundTrip == InitRoundTrip /\ [][NextRoundTrip]_vars

(***************************************************************************)
(* SpecGentFlip: a well-formed 59-byte Gent event frame, as it is or with  *)
(* one bit of one payload byte flipped, fed to the Gent parser one byte    *)
(* per poll from its initial state.                                        *)
(***************************************************************************)
MaxPattern == 2

\* Event-code pairs of 59-byte frames: permitted pairs whose second byte is
\* neither ACK nor NAK
GentEventPairs == {<<0, 1>>, <<4, 0>>, <<18, 255>>}

\* Payload byte k of pattern p: all zero, all ones, then mixed bytes
GentPayloadByte(p, k) ==
  CASE p = 0 -> 0
    [] p = 1 -> 255
    [] OTHER -> (p * 85 + k * 37) % 256

RECURSIVE SumOf(_, _)
SumOf(q, n) == IF n = 0 THEN 0 ELSE q[n] + SumOf(q, n - 1)

\* The frame the panel sends: the pair, 55 payload bytes, the 16-bit sum of
\* these 57 bytes, high byte first
GentFrame(pair, p) ==
  LET body == pair \o [k \in 1..(GENT_BODY_LAST - 1) |-> GentPayloadByte(p, k)]
      sum  == SumOf(body, Len(body)) % 65536
  IN body \o <<sum \div 256, sum % 256>>

\* Positions 3..57 of the frame are its payload
GentPayloadPositions == 3..(GENT_BODY_LAST + 1)

FlipBit(b, bit) == Xor(b, 2 ^ bit)

NoFlip == [at |-> 0, bit |-> 0]

GentFlips == {NoFlip} \cup [at : GentPayloadPositions, bit : 0..7]

Flipped(F, flip) ==
  IF flip = NoFlip THEN F ELSE [F EXCEPT ![flip.at] = FlipBit(@, flip.bit)]

InitGentFlip ==
  /\ reg = setupRegistry(RegInit(PROTOCOL_GENT, FALSE))
  /\ rx = RxInit
  /\ \E pair \in GentEventPairs, p \in 0..MaxPattern, flip \in GentFlips :
       env = [frame |-> GentFrame(pair, p), flip |-> flip,
              wire |-> Flipped(GentFrame(pair, p), flip),
              pos |-> 0, verified |-> FALSE, forwards |-> 0]

\* verified: a checksum verification has succeeded; forwards: the calls of
\* serialTxEventToNimbus so far
serialScanGentFlip ==
  /\ env.pos < Len(env.wire)
  /\ reg.uartOpen
  /\ rx' = protocolRxHandler(reg.protocolRxHandler, rx, env.wire[env.pos + 1], reg)
  /\ env' = [env EXCEPT !.pos = @ + 1,
                        !.verified = @ \/ rx'.csOk,
                        !.forwards = @ + rx'.nFwd]
  /\ reg' = [reg EXCEPT !.fresh = FALSE]

NextGentFlip == serialScanGentFlip

SpecGentFlip == InitGentFlip /\ [][NextGentFlip]_vars

(***************************************************************************)
(* SpecBle: loop() runs serialScan() on the application thread while the   *)
(* BLE stack delivers a write to onDataReceived, which runs                *)
(* edit_accept_line -> at_CommmandParser -> at_pspt_CmdHandler ->          *)
(* setProtocolType in the caller's context (SYSTEM_THREAD(ENABLED); none   *)
(* of these functions takes a lock or masks the other).  Each action is    *)
(* one statement of serialScan, of setProtocolType or of a start / stop    *)
(* handler.                                                                *)
(***************************************************************************)
MaxBleWrites == 2
MaxBleBytes == 2

BleBytes == {4, SOM}

\* The statements of a stop handler: release the handler, Serial1.end(),
\* power off; the empty handlers are entered and left in one step
StopStatement(r, id, k) ==
  IF RxHandlerOf(id) = "none" THEN r
  ELSE CASE k = 1 -> [r EXCEPT !.protocolRxHandler = "null"]
         [] k = 2 -> [r EXCEPT !.uartOpen = FALSE]
         [] OTHER -> [r EXCEPT !.pwrEnable = "LOW"]

\* The statements of a start handler: assign the handler, power on,
\* Serial1.begin()
StartStatement(r, id, k) ==
  IF RxHandlerOf(id) = "none" THEN r
  ELSE CASE k = 1 -> [r EXCEPT !.protocolRxHandler = RxHandlerOf(id)]
         [] k = 2 -> [r EXCEPT !.pwrEnable = "HIGH"]
         [] OTHER -> [r EXCEPT !.uartOpen = TRUE]

LastStatement(id) == IF RxHandlerOf(id) = "none" THEN 1 ELSE 3

\* Where setProtocolType ( Id ) goes after the stop handler, if any
AfterStop(Id) == IF HasStartHandler(Id) THEN "start" ELSE "update"

\* A setProtocolType call is between the start of its stop handler and the
\* end of its start handler
InSwitch(e) == e.blePc \in {"stop", "start"} /\ e.entered

InitBle ==
  /\ \E pid \in ProtocolIds, verbose \in BOOLEAN : reg = setupRegistry(RegInit(pid, verbose))
  /\ rx = RxInit
  /\ env = [loopPc |-> "idle", rxChar |-> 0, h |-> "null", bytes |-> 0,
            blePc |-> "idle", Id |-> 0, k |-> 0, entered |-> FALSE, writes |-> 0,
            during |-> FALSE, crashed |-> FALSE]

\* serialScan: Serial1.available ( ) != 0, rxChar = Serial1.read ( )
serialScanRead ==
  /\ ~env.crashed /\ Defined
  /\ env.loopPc = "idle"
  /\ env.bytes < MaxBleBytes
  /\ reg.uartOpen
  /\ \E rxChar \in BleBytes :
       env' = [env EXCEPT !.loopPc = "test", !.rxChar = rxChar, !.bytes = @ + 1]
  /\ UNCHANGED <<reg, rx>>

\* serialScan: if ( protocolRxHandler != nullptr )
serialScanTest ==
  /\ ~env.crashed
  /\ env.loopPc = "test"
  /\ env' = [env EXCEPT !.h = reg.protocolRxHandler,
                        !.loopPc = IF reg.protocolRxHandler = "null" THEN "idle" ELSE "call"]
  /\ UNCHANGED <<reg, rx>>

\* serialScan: protocolRxHandler ( rxChar ), through the pointer the test
\* loaded or through the pointer loaded again; a call through nullptr is a
\* fault.  during records that the byte was handed over inside a switch.
serialScanCall ==
  /\ ~env.crashed
  /\ env.loopPc = "call"
  /\ \E h \in {env.h, reg.protocolRxHandler} :
       IF h = "null"
       THEN /\ env' = [env EXCEPT !.crashed = TRUE]
            /\ rx' = rx
       ELSE /\ rx' = protocolRxHandler(h, rx, env.rxChar, reg)
            /\ env' = [env EXCEPT !.loopPc = "idle", !.during = @ \/ InSwitch(env)]
  /\ reg' = [reg EXCEPT !.fresh = FALSE]

\* onDataReceived with an AT+PSPT=<id> line: the id is stored and
\* setProtocolType ( id ) is entered
onDataReceived ==
  /\ ~env.crashed
  /\ env.blePc = "idle"
  /\ env.writes < MaxBleWrites
  /\ \E id \in ProtocolIds :
       /\ reg' = [reg EXCEPT !.protocolId = id]
       /\ env' = [env EXCEPT !.blePc = IF HasStopHandler(reg.currentId) THEN "stop"
                                       ELSE AfterStop(id),
                             !.Id = id, !.k = 1, !.entered = FALSE, !.writes = @ + 1]
  /\ rx' = rx

\* The next statement of protocolHandlerTable[currentId].protocolStopHandler()
bleStopStatement ==
  /\ ~env.crashed
  /\ env.blePc = "stop"
  /\ reg' = StopStatement(reg, reg.currentId, env.k)
  /\ env' = IF env.k < LastStatement(reg.currentId)
            THEN [env EXCEPT !.k = @ + 1, !.entered = TRUE]
            ELSE [env EXCEPT !.k = 1, !.entered = TRUE, !.blePc = AfterStop(env.Id)]
  /\ rx' = rx

\* The next statement of protocolHandlerTable[Id].protocolStartHandler()
bleStartStatement ==
  /\ ~env.crashed
  /\ env.blePc = "start"
  /\ reg' = StartStatement(reg, env.Id, env.k)
  /\ env' = IF env.k < LastStatement(env.Id)
            THEN [env EXCEPT !.k = @ + 1, !.entered = TRUE]
            ELSE [env EXCEPT !.k = 1, !.entered = FALSE, !.blePc = "update"]
  /\ rx' = rx

\* currentId = Id, and the callback returns
bleUpdateCurrentId ==
  /\ ~env.crashed
  /\ env.blePc = "update"
  /\ reg' = [reg EXCEPT !.currentId = env.Id]
  /\ env' = [env EXCEPT !.blePc = "idle", !.entered = FALSE]
  /\ rx' = rx

NextBle ==
  \/ serialScanRead
  \/ serialScanTest
  \/ serialScanCall
  \/ onDataReceived
  \/ bleStopStatement
  \/ bleStartStatement
  \/ bleUpdateCurrentId

SpecBle == InitBle /\ [][NextBle]_vars

(***************************************************************************)
(* SpecFrames: one parser, installed by setup(), fed one whole frame by    *)
(* serialScan(), one byte per poll, from the parser's initial state.  raw  *)
(* is the frame before the sender's encoding, wire the bytes on the line.  *)
(***************************************************************************)
MaxBlank == 2

\* A frame: what it is by construction, the frame, the bytes sent, and the
\* number of Device Status messages put into it
FrameRec(kind, raw, wire, device) ==
  [kind |-> kind, raw |-> raw, wire |-> wire, device |-> device]

\* The Gent frames: ACK, NAK, and an event frame
GentFrames ==
  {FrameRec("ack", F, F, 0) :
     F \in { <<0, ASCII_ACK, 0, ASCII_ACK>>, <<0, ASCII_NAK, 0, ASCII_NAK>> }}
   \cup {FrameRec("event", GentFrame(<<4, 0>>, 2), GentFrame(<<4, 0>>, 2), 0)}

\* A frame with the given packet identity and payload, and d added to the
\* first CRC byte
AdvancedFrameWith(identity, payload, d) ==
  LET body == <<identity, 0, 0, 1>> \o payload \o <<NO_MORE_MESSAGES>>
      crc  == advancedCrcUpdate(<<SOM>> \o body, 1, Len(body), 255, 255)
  IN <<SOM>> \o body \o <<(crc[1] + d) % 256, crc[2], EOM>>

AdvancedRec(kind, raw, device) == FrameRec(kind, raw, advancedAddClashCodes(raw), device)

\* Payloads of well-formed packets, with the number of Device Status (0x0A)
\* messages in each: one message of each kind, two messages, a data byte
\* that needs a clash code, and the payload that makes a 50-byte frame
ValidPayloads ==
  { <<  <<10, 3, 1>>, 1 >>, <<  <<11, 3, 1>>, 0 >>,
    <<  <<11, 3, 1, 10, 3, 1>>, 1 >>, <<  <<10, 3, 1, 10, 4, 1, 2>>, 2 >>,
    <<  <<1, 3, CLASH_CODE>>, 0 >>,
    <<  <<10, 41>> \o Zeros(39), 1 >> }

\* Payloads whose Device Status message has a length byte that points past
\* the end of the payload: 9, 200, 251 and 255 where 3 would be right
OverlongPayloads ==
  {<<10, 9, 1>>, <<10, 200, 1>>, <<10, 251, 1>>, <<10, 255>> \o Zeros(7)}

\* Payloads with bytes after a code 0xF0
TrailingPayloads ==
  {<<10, 3, 1, NO_MORE_MESSAGES, 7, 7>>, <<11, 3, 1, NO_MORE_MESSAGES, 10, 3, 1>>}

\* The 'Request Node Status' packet that the handler polls the panel with
requestNodeStatus == <<254, 128, 0, 0, 1, 42, 3, 1, 240, 140, 103, 255>>

\* Frames cut short by a framing error: the bytes collected are the start
\* sentinel and the body; the wire carries the body with its clash codes and
\* then a raw byte 0xFB..0xFE or a clash code with a follow-up byte above 5
FramingBodies ==
  {<< >>, <<PACKET_IDENTITY, 0, 0, 1>>, <<PACKET_IDENTITY, EOM, 7, CLASH_CODE, 10, 3, 1>>}

FramingErrors ==
  {<<CLASH_CODE + 1>>, <<CLASH_CODE + 2>>, <<CLASH_CODE + 3>>, <<SOM>>,
   <<CLASH_CODE, 6>>, <<CLASH_CODE, CLASH_CODE>>, <<CLASH_CODE, SOM>>, <<CLASH_CODE, EOM>>}

FramingRec(body, err) ==
  LET sent == advancedAddClashCodes(<<SOM>> \o body \o <<EOM>>)
  IN FrameRec("framing", <<SOM>> \o body, SubSeq(sent, 1, Len(sent) - 1) \o err, 0)

\* The Advanced frames: too short (also with a good CRC), well-formed,
\* with one of CRC, packet identity and message chain wrong, and with a
\* Device Status message whose length byte is 0
AdvancedFrames ==
  {AdvancedRec("short", F, 0) :
     F \in { <<SOM, EOM>>, <<SOM>> \o Zeros(8) \o <<EOM>>,
             AdvancedFrame(<< >>), AdvancedFrame(<<1, 2>>) }}
   \cup {AdvancedRec("valid", AdvancedFrame(pl[1]), pl[2]) : pl \in ValidPayloads}
   \cup {AdvancedRec("invalid", F, 1) :
           F \in { AdvancedFrameWith(PACKET_IDENTITY, <<10, 3, 1>>, 1),
                   AdvancedFrameWith(PACKET_IDENTITY + 1, <<10, 3, 1>>, 0),
                   AdvancedFrameWith(PACKET_IDENTITY + 1, <<10, 3, CLASH_CODE>>, 0),
                   AdvancedFrameWith(PACKET_IDENTITY, <<10, 3, 1, 42, 3, 1>>, 0),
                   AdvancedFrameWith(PACKET_IDENTITY, <<10, 9, 1>>, 0),
                   <<SOM>> \o Zeros(ADVANCED_MIN_LENGTH - 2) \o <<EOM>> }}
   \cup {AdvancedRec("endless", AdvancedFrame(<<10, 0, 1>>), 1)}
   \cup {FramingRec(body, err) : body \in FramingBodies, err \in FramingErrors}
   \cup {AdvancedRec("overlong", AdvancedFrame(pl), 1) : pl \in OverlongPayloads}
   \cup {AdvancedRec("trailing", AdvancedFrame(pl), 1) : pl \in TrailingPayloads}
   \cup {AdvancedRec("request", requestNodeStatus, 0)}

\* A line of n characters, <cr><lf> included, and lines of given lengths,
\* line k filled with the k-th letter
AsciiLine(n, ch) == [k \in 1..(n - 2) |-> ch] \o <<CR, LF>>

RECURSIVE AsciiLines(_, _)
AsciiLines(lens, k) ==
  IF k > Len(lens) THEN << >>
  ELSE AsciiLine(lens[k], 64 + k) \o AsciiLines(lens, k + 1)

\* Line lengths of messages within the bounds: one shortest line, one
\* longest line, a 48-character message, the minimum message of the
\* protocol, eight short lines, messages of 232 and 252 characters, and the
\* maximum message
AsciiLineLengths ==
  { <<3>>, <<ADVANCED_ASCII_LINE_LENGTH>>, <<16, 32>>, <<16, 42, 42, 42>>,
    <<3, 3, 3, 3, 3, 3, 3, 3>>, <<42, 42, 42, 42, 42, 22>>,
    <<42, 42, 42, 42, 42, 42>>,
    <<42, 42, 42, 42, 42, 42, 42, 16>> }

\* The ASCII messages: blank lines, the lines, and the blank line that ends
\* the message
AsciiFrames ==
  {FrameRec("message", AsciiLines(lens, 1),
            Repeat(<<CR, LF>>, b) \o AsciiLines(lens, 1) \o <<CR, LF>>, 0) :
     lens \in AsciiLineLengths, b \in 0..MaxBlank}

FramesOf(pid) ==
  CASE pid = PROTOCOL_GENT -> GentFrames
    [] pid = PROTOCOL_ADVANCED -> AdvancedFrames
    [] pid = PROTOCOL_ADVANCED_ASCII -> AsciiFrames
    [] OTHER -> {}

\* The frame being sent
Cur(e) == e.frame

\* The parser's state and counters when the frame begins
Snapshot(s) ==
  [serialRxState |-> s.serialRxState, serialRxLength |-> s.serialRxLength,
   totalDiscardedBytes |-> s.totalDiscardedBytes, totalRxEvents |-> s.totalRxEvents,
   uniqueTransferId |-> s.uniqueTransferId]

\* The records kept for the frame: the frames forwarded while it is
\* consumed, whether a checksum verification succeeded, the validation
\* results
BeginFrame(F, s) ==
  [frame |-> F, pos |-> 0, fwd |-> << >>, verified |-> FALSE,
   validations |-> << >>, before |-> Snapshot(s)]

FrameDone == env.pos = Len(Cur(env).wire)

InitFrames ==
  /\ \E pid \in {PROTOCOL_GENT, PROTOCOL_ADVANCED, PROTOCOL_ADVANCED_ASCII},
        verbose \in BOOLEAN :
       /\ reg = setupRegistry(RegInit(pid, verbose))
       /\ \E F \in FramesOf(pid) : env = BeginFrame(F, RxInit)
  /\ rx = RxInit

serialScanFrames ==
  /\ Defined
  /\ reg.uartOpen
  /\ ~FrameDone
  /\ rx' = protocolRxHandler(reg.protocolRxHandler, rx, Cur(env).wire[env.pos + 1], reg)
  /\ env' = [env EXCEPT !.pos = @ + 1,
                        !.fwd = IF rx'.nFwd > 0 THEN Append(@, rx'.fwdFrame) ELSE @,
                        !.verified = @ \/ rx'.csOk,
                        !.validations = IF rx'.validated # "no"
                                        THEN Append(@, rx'.validated) ELSE @]
  /\ reg' = [reg EXCEPT !.fresh = FALSE]

NextFrames == serialScanFrames

SpecFrames == InitFrames /\ [][NextFrames]_vars

(***************************************************************************)
(* SpecGent: the Gent parser, from its initial state, is fed one stream    *)
(* byte by byte: a pair of bytes followed by a byte that cannot start a    *)
(* frame, or bytes that cannot start a frame, then a frame with its        *)
(* checksum as computed or with one checksum byte altered, then one more   *)
(* byte that cannot start a frame.  env keeps the frames forwarded, the    *)
(* parser as it was before the last byte, that byte, and the number of     *)
(* bytes received since the parser was last in WaitEventMsb (since).       *)
(***************************************************************************)
MaxJunk == 2

\* Bytes above 0x12, which cannot start a frame
JunkByte(k) == IF k % 2 = 1 THEN GENT_MSB_MAX + 1 ELSE 255

Junk(n) == [k \in 1..n |-> JunkByte(k)]

\* First and second bytes tried as an event-code pair
GentMsbs == 0..(GENT_MSB_MAX + 2) \cup {255}

GentLsbs == 0..(ASCII_NAK + 2) \cup {255}

\* Pairs of the 59-byte frames sent: one or more of each row of the table of
\* event codes, and pairs of the "any LSB" rows whose LSB is 6 or 21
GentSentPairs ==
  {<<0, 1>>, <<0, 5>>, <<2, 1>>, <<2, 2>>, <<4, 0>>, <<5, 7>>, <<7, 255>>,
   <<9, 22>>, <<10, 20>>, <<18, 0>>,
   <<4, ASCII_ACK>>, <<5, ASCII_NAK>>, <<9, ASCII_ACK>>, <<18, ASCII_NAK>>}

\* The frame with one checksum byte altered: its last byte ("lo") or the one
\* before ("hi")
Corrupt(F, c) ==
  CASE c = "hi" -> [F EXCEPT ![Len(F) - 1] = (@ + 1) % 256]
    [] c = "lo" -> [F EXCEPT ![Len(F)] = (@ + 1) % 256]
    [] OTHER -> F

GentStream(kind, pair, raw, c, j) ==
  [kind |-> kind, pair |-> pair, raw |-> raw, corrupt |-> c, junk |-> j,
   wire |-> Junk(j) \o Corrupt(raw, c) \o <<JunkByte(j + 1)>>]

GentStreams ==
  {GentStream("pair", <<m, l>>, <<m, l>>, "none", 0) : m \in GentMsbs, l \in GentLsbs}
  \cup {GentStream("event", pair, GentFrame(pair, 2), c, j) :
          pair \in GentSentPairs, c \in {"none", "hi", "lo"}, j \in 0..MaxJunk}
  \cup {GentStream("ack", <<0, l>>, <<0, l, 0, l>>, c, j) :
          l \in {ASCII_ACK, ASCII_NAK}, c \in {"none", "hi", "lo"}, j \in 0..MaxJunk}

InitGent ==
  /\ reg = setupRegistry(RegInit(PROTOCOL_GENT, FALSE))
  /\ rx = RxInit
  /\ \E S \in GentStreams :
       env = [stream |-> S, pos |-> 0, fwd |-> << >>, pre |-> RxInit, byte |-> 0,
              since |-> 0]

serialScanGent ==
  /\ Defined
  /\ reg.uartOpen
  /\ env.pos < Len(env.stream.wire)
  /\ rx' = protocolRxHandler(reg.protocolRxHandler, rx, env.stream.wire[env.pos + 1], reg)
  /\ env' = [env EXCEPT !.pos = @ + 1,
                        !.fwd = IF rx'.nFwd > 0 THEN Append(@, rx'.fwdFrame) ELSE @,
                        !.pre = rx,
                        !.byte = env.stream.wire[env.pos + 1],
                        !.since = IF rx'.serialRxState = 0 THEN 0 ELSE @ + 1]
  /\ reg' = [reg EXCEPT !.fresh = FALSE]

NextGent == serialScanGent

SpecGent == InitGent /\ [][NextGent]_vars

(***************************************************************************)
(* SpecAfter: the Advanced parser receives a packet after earlier traffic. *)
(* env keeps what is forwarded while the packet itself is consumed, and    *)
(* alone, what is forwarded when the same packet is the first thing the    *)
(* parser receives after start.                                            *)
(***************************************************************************)
MaxEarlier == 1

\* Earlier traffic: packets with one and with two Device Status messages, a
\* packet with a Device Status message and a bad CRC, one rejected by the
\* chain scan after its Device Status message was counted, a frame that is
\* too short, and a frame cut short by a framing error
EarlierFrames ==
  {AdvancedPacket(<<10, 3, 1>>), AdvancedPacket(<<10, 3, 1, 10, 4, 1, 2>>),
   advancedAddClashCodes(AdvancedFrameWith(PACKET_IDENTITY, <<10, 3, 1>>, 1)),
   AdvancedPacket(<<10, 9, 1>>),
   <<SOM, EOM>>,
   <<SOM, PACKET_IDENTITY, CLASH_CODE + 1>>}

RECURSIVE EarlierTraffic(_)
EarlierTraffic(n) ==
  IF n = 0 THEN {<< >>}
  ELSE EarlierTraffic(n - 1)
       \cup {e \o F : e \in EarlierTraffic(n - 1), F \in EarlierFrames}

\* The packets whose fate is compared: accepted with and without a Device
\* Status message, and rejected by each test in turn
LaterPackets ==
  {AdvancedPacket(pl) : pl \in {<<10, 3, 1>>, <<11, 3, 1>>, <<1, 3, CLASH_CODE>>,
                                <<11, 3, 1, 10, 3, 1>>, <<11, 3, 1, 42, 3, 1>>,
                                <<11, 9, 1>>, << >>}}
  \cup {advancedAddClashCodes(AdvancedFrameWith(PACKET_IDENTITY, <<11, 3, 1>>, 1)),
        advancedAddClashCodes(AdvancedFrameWith(PACKET_IDENTITY + 1, <<10, 3, 1>>, 0))}

\* The frames forwarded while wire[k..] is received in state s
RECURSIVE ForwardsOf(_, _, _, _)
ForwardsOf(s, wire, k, cfg) ==
  IF k > Len(wire) THEN << >>
  ELSE LET s1 == protocolRxHandler(cfg.protocolRxHandler, s, wire[k], cfg)
       IN (IF s1.nFwd > 0 THEN <<s1.fwdFrame>> ELSE << >>)
          \o ForwardsOf(s1, wire, k + 1, cfg)

InitAfter ==
  /\ \E verbose \in BOOLEAN : reg = setupRegistry(RegInit(PROTOCOL_ADVANCED, verbose))
  /\ rx = RxInit
  /\ \E e \in EarlierTraffic(MaxEarlier), pk \in LaterPackets :
       env = [earlier |-> e, packet |-> pk, pos |-> 0, fwd |-> << >>,
              alone |-> ForwardsOf(RxInit, pk, 1, reg)]

serialScanAfter ==
  /\ Defined
  /\ reg.uartOpen
  /\ env.pos < Len(env.earlier) + Len(env.packet)
  /\ rx' = protocolRxHandler(reg.protocolRxHandler, rx,
                             (env.earlier \o env.packet)[env.pos + 1], reg)
  /\ env' = [env EXCEPT !.pos = @ + 1,
                        !.fwd = IF env.pos >= Len(env.earlier) /\ rx'.nFwd > 0
                                THEN Append(@, rx'.fwdFrame) ELSE @]
  /\ reg' = [reg EXCEPT !.fresh = FALSE]

NextAfter == serialScanAfter

SpecAfter == InitAfter /\ [][NextAfter]_vars

(***************************************************************************)
(* SpecAscii: the Line-Oriented-ASCII parser, from its initial state, is   *)
(* fed one message byte by byte: its lines and the blank line that ends    *)
(* it.  env keeps the frames forwarded, the parser as it was before the    *)
(* last byte, that byte and the one before it, the number of characters of *)
(* the current line received so far (col), and whether the parser has been *)
(* in ErrorRecovery.                                                       *)
(***************************************************************************)
\* A line of n characters that ends with <cr><lf>, or with <lf> alone
Crlf(n) == <<n, "crlf">>

Bare(n) == <<n, "lf">>

TextLine(line, ch) ==
  IF line[2] = "crlf" THEN [k \in 1..(line[1] - 2) |-> ch] \o <<CR, LF>>
  ELSE [k \in 1..(line[1] - 1) |-> ch] \o <<LF>>

\* The lines one after the other, line k filled with the k-th letter
RECURSIVE TextLines(_, _)
TextLines(lines, k) ==
  IF k > Len(lines) THEN << >>
  ELSE TextLine(lines[k], 64 + k) \o TextLines(lines, k + 1)

\* Messages within the bounds; with a first line of one or two characters
\* or of more than 42; with nine lines; of 311 to 336 characters; with a
\* later line of one to three characters that ends with <lf> alone; with a
\* later line of more than 42 characters; and with lines that arrive while
\* the parser is in ErrorRecovery
AsciiMessages ==
  { <<Crlf(3)>>, <<Crlf(ADVANCED_ASCII_LINE_LENGTH)>>, <<Crlf(5), Crlf(5)>>,
    Repeat(<<Crlf(3)>>, ADVANCED_ASCII_MAX_LINES),
    Repeat(<<Crlf(ADVANCED_ASCII_LINE_LENGTH)>>, 5) \o <<Crlf(16)>>,
    Repeat(<<Crlf(ADVANCED_ASCII_LINE_LENGTH)>>, 7) \o <<Crlf(16)>> }
  \cup { <<Bare(1), Crlf(5)>>, <<Bare(2), Crlf(5)>>,
         <<Crlf(43), Crlf(5)>>, <<Crlf(44), Crlf(5)>>, <<Crlf(45)>>,
         <<Crlf(50), Crlf(5)>> }
  \cup { Repeat(<<Crlf(3)>>, ADVANCED_ASCII_MAX_LINES + 1) }
  \cup { Repeat(<<Crlf(ADVANCED_ASCII_LINE_LENGTH)>>, 7) \o <<Crlf(n)>> : n \in 17..20 }
  \cup { Repeat(<<Crlf(ADVANCED_ASCII_LINE_LENGTH)>>, ADVANCED_ASCII_MAX_LINES),
         Repeat(<<Crlf(ADVANCED_ASCII_LINE_LENGTH)>>, 7) \o <<Crlf(20), Crlf(5)>> }
  \cup { <<Crlf(5), Bare(n), Crlf(5)>> : n \in 1..3 }
  \cup { <<Crlf(5), Crlf(n), Crlf(5)>> : n \in {43, 45, 50} }
  \cup { <<Crlf(5), Bare(1), Crlf(258), Crlf(5)>>, <<Crlf(5), Bare(1), Bare(1)>>,
         <<Crlf(5), Bare(1), Crlf(5)>>, <<Crlf(5), Bare(1), Crlf(3), Bare(2)>> }

AsciiStream(lines) ==
  [lines |-> lines, text |-> TextLines(lines, 1),
   wire |-> TextLines(lines, 1) \o <<CR, LF>>]

InitAscii ==
  /\ reg = setupRegistry(RegInit(PROTOCOL_ADVANCED_ASCII, FALSE))
  /\ rx = RxInit
  /\ \E m \in AsciiMessages :
       env = [stream |-> AsciiStream(m), pos |-> 0, fwd |-> << >>, pre |-> RxInit,
              byte |-> LF, prev |-> LF, col |-> 0, aborted |-> FALSE]

serialScanAscii ==
  /\ Defined
  /\ reg.uartOpen
  /\ env.pos < Len(env.stream.wire)
  /\ rx' = protocolRxHandler(reg.protocolRxHandler, rx, env.stream.wire[env.pos + 1], reg)
  /\ env' = [env EXCEPT !.pos = @ + 1,
                        !.fwd = IF rx'.nFwd > 0 THEN Append(@, rx'.fwdFrame) ELSE @,
                        !.pre = rx,
                        !.byte = env.stream.wire[env.pos + 1],
                        !.prev = env.byte,
                        !.col = IF env.byte = LF THEN 1 ELSE @ + 1,
                        !.aborted = @ \/ rx'.serialRxState = 2]
  /\ reg' = [reg EXCEPT !.fresh = FALSE]

NextAscii == serialScanAscii

SpecAscii == InitAscii /\ [][NextAscii]_vars

(***************************************************************************)
(* SpecPoll: loop() after the power-up tests, with the receive buffer of   *)
(* Serial1 between the panel and serialScan().  The panel's bytes arrive   *)
(* in the buffer while the UART is open, each with its arrival number;     *)
(* every poll is a call of serialScan(), with or without a byte waiting;   *)
(* cliScan() may switch the protocol.  What Serial1.end() does to bytes    *)
(* that wait, and what Serial1.available() returns for them while the UART *)
(* is closed, is left open.  env keeps the deliveries made and, of the     *)
(* last step, what it was and the state it started from.                   *)
(***************************************************************************)
MaxArrivals == 2

MaxPollSwitch == 1

\* Bytes from the panel: one that starts a Gent frame, a letter, the start
\* sentinel of Advanced
ArrivingBytes == {4, 65, SOM}

\* Serial1.read ( ): the oldest byte that waits, and the bytes left
Serial1Read(fifo) == [rxChar |-> Head(fifo)[2], k |-> Head(fifo)[1], rest |-> Tail(fifo)]

\* if ( protocolRxHandler != nullptr ) protocolRxHandler ( rxChar )
DeliverByte_NoNullTest(r, s, rxChar) ==
  protocolRxHandler(IF r.protocolRxHandler = "null" THEN "serialRxGent"
                    ELSE r.protocolRxHandler, s, rxChar, r)

DeliverByte(r, s, rxChar) ==
  IF r.protocolRxHandler # "null"
  THEN protocolRxHandler(r.protocolRxHandler, s, rxChar, r)
  ELSE s

InitPoll ==
  /\ \E pid \in ProtocolIds, verbose \in BOOLEAN : reg = RegInit(pid, verbose)
  /\ rx = RxInit
  /\ env = [pc |-> "boot", switches |-> 0, arrivals |-> 0, fifo |-> << >>,
            delivered |-> << >>,
            last |-> [step |-> "none", avail |-> FALSE, fifo |-> << >>,
                      handler |-> "null", rx |-> RxInit]]

Started(step) ==
  [step |-> step, avail |-> FALSE, fifo |-> env.fifo,
   handler |-> reg.protocolRxHandler, rx |-> rx]

setupPoll ==
  /\ env.pc = "boot"
  /\ reg' = setupRegistry(reg)
  /\ env' = [env EXCEPT !.pc = "loop", !.last = Started("setup")]
  /\ UNCHANGED rx

\* A byte from the panel is received by the UART
panelSends ==
  /\ env.pc = "loop"
  /\ reg.uartOpen
  /\ env.arrivals < MaxArrivals
  /\ \E b \in ArrivingBytes :
       env' = [env EXCEPT !.arrivals = @ + 1,
                          !.fifo = Append(@, <<env.arrivals + 1, b>>),
                          !.last = Started("arrival")]
  /\ UNCHANGED <<reg, rx>>

\* cliScan() receiving the line AT+PSPT=<id>
cliScanPoll ==
  /\ env.pc = "loop" /\ Defined
  /\ env.switches < MaxPollSwitch
  /\ \E id \in ProtocolIds : reg' = atPsptWrite(reg, id)
  /\ \E kept \in {env.fifo} \cup (IF reg.uartOpen THEN {<< >>} ELSE {}) :
       env' = [env EXCEPT !.switches = @ + 1, !.fifo = kept, !.last = Started("cli")]
  /\ UNCHANGED rx

\* serialScan()
serialScanPoll ==
  /\ env.pc = "loop" /\ Defined
  /\ \E avail \in BOOLEAN :
       /\ avail => env.fifo # << >>
       /\ (reg.uartOpen /\ env.fifo # << >>) => avail
       /\ IF avail
          THEN LET rd == Serial1Read(env.fifo)
               IN /\ rx' = DeliverByte(reg, rx, rd.rxChar)
                  /\ env' = [env EXCEPT
                       !.fifo = rd.rest,
                       !.delivered =
                          IF reg.protocolRxHandler # "null"
                          THEN Append(@, [k |-> rd.k, rxChar |-> rd.rxChar,
                                          to |-> reg.protocolRxHandler,
                                          active |-> reg.currentId])
                          ELSE @,
                       !.last = [Started("poll") EXCEPT !.avail = TRUE]]
          ELSE /\ rx' = rx
               /\ env' = [env EXCEPT !.last = Started("poll")]
       /\ reg' = [reg EXCEPT !.fresh = @ /\ ~(avail /\ reg.protocolRxHandler # "null")]

NextPoll == setupPoll \/ panelSends \/ cliScanPoll \/ serialScanPoll

SpecPoll == InitPoll /\ [][NextPoll]_vars

(***************************************************************************)
(* SpecTransfers: the same valid frame arrives again and again, so that    *)
(* the Transfer Encoder is called many times.  The result of Base64::encode*)
(* is an input of every step.  env records the ids of the last two         *)
(* transfers, whether the encoding of the last one failed, whether a       *)
(* failure occurred before it, and the parser as it was before the byte.   *)
(***************************************************************************)
MaxTransfers == 257

TransferFrames(pid) ==
  IF pid = PROTOCOL_ADVANCED
  THEN {AdvancedRec("valid", AdvancedFrameWith(PACKET_IDENTITY, <<10, 3, 1>>, 0), 1)}
  ELSE {FrameRec("message", AsciiLine(3, 65) \o <<CR, LF>>,
                 AsciiLine(3, 65) \o <<CR, LF>>, 0)}

InitTransfers ==
  /\ \E pid \in {PROTOCOL_ADVANCED, PROTOCOL_ADVANCED_ASCII} :
       /\ reg = setupRegistry(RegInit(pid, FALSE))
       /\ \E F \in TransferFrames(pid) :
            env = [frame |-> F, pos |-> 0, count |-> 0, lastId |-> 0, prevId |-> 0,
                   failed |-> FALSE, failedBefore |-> FALSE,
                   pre |-> RxInit, byte |-> 0]
  /\ rx = RxInit

serialScanTransfers ==
  /\ Defined
  /\ reg.uartOpen
  /\ env.count < MaxTransfers
  /\ \E success \in BOOLEAN :
       LET pre  == [rx EXCEPT !.base64Ok = success]
           byte == Cur(env).wire[env.pos + 1]
           post == protocolRxHandler(reg.protocolRxHandler, pre, byte, reg)
       IN /\ rx' = post
          /\ env' = IF post.nFwd > 0
                    THEN [env EXCEPT !.pos = (@ + 1) % Len(Cur(env).wire),
                                     !.count = @ + 1,
                                     !.prevId = env.lastId,
                                     !.lastId = post.nimbusTransferMessage.uniqueTransferId,
                                     !.failedBefore = env.failed,
                                     !.failed = ~success,
                                     !.pre = pre, !.byte = byte]
                    ELSE [env EXCEPT !.pos = (@ + 1) % Len(Cur(env).wire),
                                     !.pre = pre, !.byte = byte]
  /\ reg' = [reg EXCEPT !.fresh = FALSE]

NextTransfers == serialScanTransfers

SpecTransfers == InitTransfers /\ [][NextTransfers]_vars

(***************************************************************************)
(* Properties of the parsers, checked under SpecFuzz and SpecStuffed       *)
(***************************************************************************)
\* C1: whatever bytes the Binary-CRC-Stuffed parser is fed from WaitStart, no
\* write into the receive buffer is at an index of 108 or more and
\* serialRxLength never exceeds 108.
C1_AdvancedWithin108 ==
  reg.protocolRxHandler = "serialRxAdvanced" =>
     (rx.wrMax < ADVANCED_MAX_LENGTH /\ rx.serialRxLength <= ADVANCED_MAX_LENGTH)

\* C2: every write of a parser into the shared receive buffer is at an index
\* below its capacity of 512; a parser that would exceed the capacity resets
\* and discards instead of writing.
C2_WithinCapacity == rx.wrMax < RX_BUFFER_SIZE /\ ~rx.overrun

\* C3: one received byte triggers at most one forward call, and after a
\* forward call the parser is back in its initial state, so that a second
\* forward needs a new frame.
C3_AtMostOneForward ==
  /\ rx.nFwd <= 1
  /\ rx.nFwd = 1 => rx.serialRxState = 0

\* C3 witness: the Gent parser has just forwarded a 59-byte event frame
C3_Witness ==
  /\ reg.protocolRxHandler = "serialRxGent"
  /\ rx.nFwd = 1
  /\ Len(rx.fwdFrame) = GENT_EVENT_LENGTH

(***************************************************************************)
(* Property of the switch commanded from the BLE callback, checked under   *)
(* SpecBle                                                                 *)
(***************************************************************************)
\* C4: no byte is handed to a byte-handler while a setProtocolType call is
\* between the start of its stop handler and the end of its start handler,
\* also when the switch is commanded through onDataReceived while loop()
\* runs serialScan.
C4_NoByteDuringSwitch == ~env.during

(***************************************************************************)
(* Properties of the registry, checked under Spec                          *)
(***************************************************************************)
\* The ids whose table entry has a stop handler and a start handler
WithHandlers == {1, 2, 3, 4, 5, 6, 7, 8, 10}

CountOf(log, what) == Cardinality({k \in 1..Len(log) : log[k][1] = what})

\* C5: after any sequence of setProtocolType calls at most one start handler
\* has run without a matching stop; every call first invokes the stop handler
\* of the previously selected protocol when it has one (also when the same id
\* is requested again) and only then the start handler of the requested id;
\* the first call invokes no stop handler.
C5_StopThenStart ==
  /\ Len(reg.running) <= 1
  /\ reg.lastCall.n > 0 =>
       /\ reg.lastCall.log =
            (IF reg.lastCall.before \in WithHandlers
             THEN << <<"stop", reg.lastCall.before>> >> ELSE << >>)
            \o (IF reg.lastCall.id \in WithHandlers
                THEN << <<"start", reg.lastCall.id>> >> ELSE << >>)
       /\ reg.lastCall.n = 1 => CountOf(reg.lastCall.log, "stop") = 0

\* C5 witness: a call that re-selects the running Gent protocol
C5_Witness ==
  /\ reg.lastCall.n >= 2
  /\ reg.lastCall.id = PROTOCOL_GENT
  /\ reg.lastCall.before = PROTOCOL_GENT
  /\ reg.running = <<PROTOCOL_GENT>>

\* C6: whenever setProtocolType(id) has returned for id = NONE or an id without
\* a start handler, the isolated supply is off, the UART is closed and no
\* byte-handler is installed.
C6_ShutDownWhenNone ==
  (reg.lastCall.n > 0 /\ reg.lastCall.id \notin WithHandlers) =>
     /\ reg.lastCall.after.pwrEnable = "LOW"
     /\ ~reg.lastCall.after.uartOpen
     /\ reg.lastCall.after.protocolRxHandler = "null"

\* Two calls in a row with the same id
TwiceInARow == reg.prevCall.n > 0 /\ reg.lastCall.id = reg.prevCall.id

\* C7 as stated: two calls in a row with the same id leave the observable
\* state of one call, and across the two calls the stop handler is invoked
\* exactly twice and the start handler exactly twice.
C7_TwiceTwice ==
  TwiceInARow =>
     /\ reg.lastCall.after = reg.prevCall.after
     /\ CountOf(reg.prevCall.log, "stop") + CountOf(reg.lastCall.log, "stop") = 2
     /\ CountOf(reg.prevCall.log, "start") + CountOf(reg.lastCall.log, "start") = 2

\* C7 amended: two calls in a row with the same id X leave the observable
\* state of one call; the start handler of X is invoked once by each call and
\* the stop handler of X once by the second call when X has handlers, and no
\* handler of X is invoked otherwise; the first call invokes one more stop
\* handler, that of the protocol selected before it, only when that has one.
C7_Idempotent ==
  TwiceInARow =>
     LET X == reg.lastCall.id
         h == IF X \in WithHandlers THEN 1 ELSE 0
     IN /\ reg.lastCall.after = reg.prevCall.after
        /\ reg.lastCall.after.currentId = X
        /\ CountOf(reg.prevCall.log, "start") = h
        /\ CountOf(reg.lastCall.log, "start") = h
        /\ CountOf(reg.lastCall.log, "stop") = h
        /\ CountOf(reg.prevCall.log, "stop") =
             (IF reg.prevCall.before \in WithHandlers THEN 1 ELSE 0)
        /\ \A k \in 1..Len(reg.lastCall.log) : reg.lastCall.log[k][2] = X

\* C7 witness: the Advanced protocol selected twice in a row
C7_Witness ==
  /\ TwiceInARow
  /\ reg.lastCall.id = PROTOCOL_ADVANCED
  /\ reg.protocolRxHandler = "serialRxAdvanced"

\* C8: a parser installed by setProtocolType processes its first byte from
\* its initial state with an empty receive buffer.
C8_FreshParserStartsClean ==
  (reg.fresh /\ reg.protocolRxHandler # "null") =>
     (rx.serialRxState = 0 /\ rx.serialRxLength = 0)

(***************************************************************************)
(* Properties of single frames, checked under SpecGentFlip and             *)
(* SpecRoundTrip                                                           *)
(***************************************************************************)
\* C9: a well-formed 59-byte Binary-Checksummed frame with one payload bit
\* flipped never passes checksum verification and causes no forward call
\* while its 59 bytes are consumed; the frame as sent passes and is forwarded
\* once.
C9_FlipRejected ==
  IF env.flip = NoFlip
  THEN env.pos = GENT_EVENT_LENGTH => (env.verified /\ env.forwards = 1)
  ELSE ~env.verified /\ env.forwards = 0

\* C9 witness: all 59 bytes of a frame with a flipped payload bit consumed
C9_Witness ==
  /\ env.flip # NoFlip
  /\ env.wire # env.frame
  /\ env.pos = GENT_EVENT_LENGTH
  /\ ~env.verified

\* C10: for a frame F = (0xFE, body, 0xFF) of at most 108 bytes, the parser
\* fed advancedAddClashCodes(F) from WaitStart holds exactly F when the end
\* sentinel has been processed; a body byte b in 0xFA..0xFF is sent as
\* (0xFA, b - 0xFA).
C10_RoundTrip ==
  env.pc = "feed" =>
     /\ env.pos = Len(env.out) => Frame(rx) = env.frame
     /\ (Len(env.frame) = 3 /\ env.frame[2] >= CLASH_CODE) =>
          env.out = <<SOM, CLASH_CODE, env.frame[2] - CLASH_CODE, EOM>>

\* C10 witness: a frame of 108 bytes whose last body byte is 0xFF is back in
\* the receive buffer
C10_Witness ==
  /\ env.pc = "feed"
  /\ env.pos = Len(env.out)
  /\ Len(env.frame) = ADVANCED_MAX_LENGTH
  /\ env.frame[ADVANCED_MAX_LENGTH - 1] = EOM
  /\ Frame(rx) = env.frame

(***************************************************************************)
(* Properties of whole frames, checked under SpecFrames                    *)
(***************************************************************************)
\* C11: a 4-byte ACK or NAK frame fed from WaitEventMsb passes checksum
\* verification but is never forwarded: after its four bytes the parser is
\* back in WaitEventMsb and no forward call has been made.
C11_AckNotForwarded ==
  (Cur(env).kind = "ack" /\ env.before.serialRxState = 0) =>
     /\ env.fwd = << >>
     /\ FrameDone => (env.verified /\ rx.serialRxState = 0)

\* C11 witness: the NAK frame 00 15 00 15 consumed and verified
C11_Witness ==
  /\ Cur(env).kind = "ack"
  /\ Cur(env).raw[2] = ASCII_NAK
  /\ FrameDone
  /\ env.verified
  /\ rx.i = 4

\* C12: a Binary-CRC-Stuffed frame of fewer than 12 bytes from 0xFE to 0xFF
\* is rejected by the length test, its CRC and format not being looked at,
\* and is forwarded only if verbose mode is enabled.
C12_ShortRejected ==
  (Cur(env).kind = "short" /\ env.before.serialRxState = 0 /\ FrameDone) =>
     /\ env.validations = <<"length">>
     /\ env.fwd = (IF reg.verbose THEN <<Cur(env).raw>> ELSE << >>)
     /\ rx.serialRxState = 0

\* C12 witness: a 9-byte frame with a good CRC has been rejected and, verbose
\* mode being off, not forwarded
C12_Witness ==
  /\ Cur(env).kind = "short"
  /\ FrameDone
  /\ Cur(env).raw = AdvancedFrame(<< >>)
  /\ ~reg.verbose
  /\ env.fwd = << >>
  /\ rx.validated = "length"

\* C13: zero or more blank lines, then 1 to 8 non-blank <cr><lf> terminated
\* lines within the length bounds, then one blank line, fed to the ASCII
\* parser from Idle with an empty buffer: exactly one message is forwarded,
\* made of the non-blank lines in order and the blank line that ends them,
\* without the leading blank lines; the parser ends in Idle with an empty
\* buffer.
C13_OneMessage ==
  (Cur(env).kind = "message" /\ FrameDone) =>
     /\ env.fwd = << Cur(env).raw \o <<CR, LF>> >>
     /\ rx.serialRxState = 0
     /\ rx.serialRxLength = 0

\* C13 witness: two blank lines and eight lines have been sent and forwarded
C13_Witness ==
  /\ Cur(env).kind = "message"
  /\ FrameDone
  /\ Len(Cur(env).wire) = Len(Cur(env).raw) + 6
  /\ Cur(env).raw[Len(Cur(env).raw) - 2] = 64 + ADVANCED_ASCII_MAX_LINES
  /\ Len(env.fwd) = 1

(***************************************************************************)
(* Properties of the Transfer Encoder.  A forward call has just been made  *)
(* when nFwd = 1; fwdFrame is the frame handed over, of length n.          *)
(***************************************************************************)
\* C14: for every frame of length n handed to the Transfer Encoder the
\* EventRecord has Type = the configured protocol id, Length[0] = n + 8,
\* Length[1] = Length[2] = 0, fractional seconds = 0 and a payload equal to
\* the n frame bytes.
C14_EventRecord ==
  rx.nFwd = 1 =>
     /\ rx.eventMessage.Type = reg.protocolId
     /\ rx.eventMessage.Length = <<Len(rx.fwdFrame) + EVENT_TIMESTAMP_LENGTH, 0, 0>>
     /\ rx.eventMessage.SecondFracPart = 0
     /\ rx.eventMessage.Data = rx.fwdFrame

\* C15 as stated: the TransferRecord has Type = 0x83, Length[1] = Length[2]
\* = 0 and Length[0] = the EventRecord length field + 4.
C15_TransferLengthPlus4 ==
  rx.nFwd = 1 =>
     /\ rx.nimbusTransferMessage.Type = TRANSFER_TYPE
     /\ rx.nimbusTransferMessage.Length =
          <<rx.eventMessage.Length[1] + TYPE_AND_LENGTH_FIELDS, 0, 0>>

\* C15 amended: the TransferRecord has Type = 0x83, Length[1] = Length[2] = 0
\* and Length[0] = the low byte of the EventRecord length field + 16 (the 4
\* bytes of the EventRecord's type and length fields and the 12 bytes of
\* transfer id, timestamp and fractional seconds), that is of n + 24.
C15_TransferLengthPlus16 ==
  rx.nFwd = 1 =>
     /\ rx.nimbusTransferMessage.Type = TRANSFER_TYPE
     /\ rx.nimbusTransferMessage.Length =
          <<(rx.eventMessage.Length[1] + TYPE_AND_LENGTH_FIELDS
               + TRANSFER_HEADER_LENGTH) % 256, 0, 0>>
     /\ rx.nimbusTransferMessage.Length[1] =
          (Len(rx.fwdFrame) + EVENT_TIMESTAMP_LENGTH + TYPE_AND_LENGTH_FIELDS
             + TRANSFER_HEADER_LENGTH) % 256

\* C15 witness: a 50-byte frame forwarded, EventRecord length 58, TransferRecord
\* length 74
C15_Witness ==
  /\ rx.nFwd = 1
  /\ Len(rx.fwdFrame) = 50
  /\ rx.eventMessage.Length[1] = 58
  /\ rx.nimbusTransferMessage.Length[1] = 74

\* C17: every frame handed to the Transfer Encoder is at most 244 bytes
\* long, so the copy into the EventRecord payload stays inside the field.
C17_FrameFitsPayload ==
  rx.nFwd > 0 => (Len(rx.fwdFrame) <= EVENT_DATA_SIZE /\ ~rx.dataOverrun)

(***************************************************************************)
(* Properties of successive transfers, checked under SpecTransfers         *)
(***************************************************************************)
\* C16: every call of the Transfer Encoder issues a transfer id exactly 1
\* greater than the id issued by the previous call, whether or not that
\* call's encoding succeeded; the 4-byte field does not overflow within
\* MaxTransfers calls.
C16_IdPlusOne ==
  env.count >= 2 => env.lastId = env.prevId + 1

\* The parser as the byte of the last step would have left it had the
\* encoding succeeded
AsIfEncoded ==
  protocolRxHandler(reg.protocolRxHandler, [env.pre EXCEPT !.base64Ok = TRUE],
                    env.byte, reg)

\* C18: when Base64 encoding fails for a forwarded frame nothing is published
\* and the encoder has been called once; serialRxState, the buffer and
\* serialRxLength are what they would be had the encoding succeeded; and the
\* frame that follows is forwarded whole, and published when its own
\* encoding succeeds.
C18_FailureDropsOneEvent ==
  /\ (rx.nFwd > 0 /\ ~rx.base64Ok) =>
        /\ rx.nPub = 0
        /\ rx.nFwd = 1
        /\ rx.serialRxState = AsIfEncoded.serialRxState
        /\ rx.serialRxBuffer = AsIfEncoded.serialRxBuffer
        /\ rx.serialRxLength = AsIfEncoded.serialRxLength
        /\ AsIfEncoded.nPub = 1
  /\ (env.count >= 1 /\ env.pos = 0) =>
        /\ rx.nFwd = 1
        /\ rx.fwdFrame = Cur(env).raw
        /\ rx.nPub = (IF rx.base64Ok THEN 1 ELSE 0)

\* C18 witness: the encoding of a frame failed and the frame after it has
\* just been forwarded and published
C18_Witness ==
  /\ env.failedBefore
  /\ ~env.failed
  /\ env.pos = 0
  /\ rx.nFwd = 1
  /\ rx.nPub = 1
  /\ rx.fwdFrame = Cur(env).raw

(***************************************************************************)
(* Properties of the end of a Binary-CRC-Stuffed packet, checked under     *)
(* SpecFrames                                                              *)
(***************************************************************************)
\* C19: when 0xFF completes a packet that passes the length, CRC, identity
\* and identifier-code chain tests, the packet is forwarded if and only if
\* verbose mode is on or it holds at least one Device Status (0x0A) message;
\* either way the parser is back in WaitStart.
C19_ValidForwardedIfRelevant ==
  (Cur(env).kind = "valid" /\ FrameDone) =>
     /\ env.validations = <<"ok">>
     /\ env.fwd = (IF reg.verbose \/ Cur(env).device > 0
                   THEN <<Cur(env).raw>> ELSE << >>)
     /\ rx.serialRxState = 0

\* C19 witness: verbose mode off, a packet with a Fault Status and a Device
\* Status message has passed validation and has been forwarded
C19_Witness ==
  /\ ~reg.verbose
  /\ Cur(env).kind = "valid"
  /\ Cur(env).raw = AdvancedFrame(<<11, 3, 1, 10, 3, 1>>)
  /\ FrameDone
  /\ env.validations = <<"ok">>
  /\ env.fwd = <<Cur(env).raw>>

\* C20: when 0xFF completes a packet that fails one of the tests, the packet
\* is forwarded if and only if verbose mode is on; with verbose mode off
\* totalDiscardedBytes has grown by the number of bytes stored for the
\* packet; the parser is back in WaitStart.
C20_InvalidForwardedIfVerbose ==
  (Cur(env).kind \in {"short", "invalid"} /\ FrameDone) =>
     /\ Len(env.validations) = 1
     /\ env.validations[1] \in {"length", "crc", "identity", "format"}
     /\ env.fwd = (IF reg.verbose THEN <<Cur(env).raw>> ELSE << >>)
     /\ ~reg.verbose =>
           rx.totalDiscardedBytes = env.before.totalDiscardedBytes + Len(Cur(env).raw)
     /\ rx.serialRxState = 0

\* C20 witness: verbose mode off, a packet with the identity 0x81 and a
\* clash-coded data byte has been rejected, dropped and counted
C20_Witness ==
  /\ ~reg.verbose
  /\ Cur(env).kind = "invalid"
  /\ Len(Cur(env).wire) > Len(Cur(env).raw)
  /\ FrameDone
  /\ env.validations = <<"identity">>
  /\ env.fwd = << >>
  /\ rx.totalDiscardedBytes = Len(Cur(env).raw)

(***************************************************************************)
(* Properties of the identifier-code chain scan                            *)
(***************************************************************************)
\* C21: every call of a byte-handler returns, the packet validation run on
\* the end sentinel and its identifier-code chain scan included: no byte
\* leaves the handler in a loop that never ends.
C21_HandlerReturns == ~rx.hung

(***************************************************************************)
(* Properties of the Binary-Checksummed parser, checked under SpecGent     *)
(***************************************************************************)
\* The table of event codes: MSB 0 with LSB 1..6 or 21, MSB 2 with LSB 1 or
\* 2, and MSB 4, 5, 7, 9, 10 or 18 with any LSB
PermittedPair(m, l) ==
  \/ (m = 0 /\ (l \in 1..6 \/ l = 21))
  \/ (m = 2 /\ l \in {1, 2})
  \/ m \in {4, 5, 7, 9, 10, 18}

\* The frame of the stream has been consumed up to its n-th byte
GentAt(n) == env.pos = env.stream.junk + n

\* The 16-bit sum of the first n bytes of F
Sum16(F, n) == SumOf(F, n) % 65536

\* C22: every frame forwarded by the parser has 59 bytes, a permitted pair
\* in bytes 0-1 and, in bytes 57 and 58, the high and the low byte of the
\* 16-bit sum of bytes 0..56; a frame sent with its first or its second
\* checksum byte wrong puts the parser back in WaitEventMsb at that byte and
\* is not forwarded.
C22_ForwardedFramesChecked ==
  /\ rx.nFwd > 0 =>
        /\ Len(rx.fwdFrame) = GENT_EVENT_LENGTH
        /\ PermittedPair(rx.fwdFrame[1], rx.fwdFrame[2])
        /\ rx.fwdFrame[58] = Sum16(rx.fwdFrame, 57) \div 256
        /\ rx.fwdFrame[59] = Sum16(rx.fwdFrame, 57) % 256
  /\ (/\ \/ env.stream.kind = "ack"
          \/ (env.stream.kind = "event"
                /\ ~(env.stream.pair[2] \in {ASCII_ACK, ASCII_NAK}))
      /\ \/ (env.stream.corrupt = "hi" /\ GentAt(Len(env.stream.raw) - 1))
         \/ (env.stream.corrupt = "lo" /\ GentAt(Len(env.stream.raw)))) =>
        /\ rx.serialRxState = 0
        /\ rx.nFwd = 0
        /\ env.fwd = << >>
  /\ env.stream.corrupt # "none" => env.fwd = << >>

\* C22 witness: a 59-byte frame got as far as its second checksum byte, which
\* was wrong
C22_Witness ==
  /\ env.stream.kind = "event"
  /\ env.stream.pair = <<9, 22>>
  /\ env.stream.corrupt = "lo"
  /\ GentAt(GENT_EVENT_LENGTH)
  /\ env.pre.serialRxState = 4
  /\ rx.serialRxState = 0
  /\ rx.nFwd = 0

\* C23: a 59-byte frame that starts with a permitted pair other than (0,6)
\* and (0,21) and ends with the correct checksum, fed from WaitEventMsb,
\* results in exactly one forward call carrying its 59 bytes, the parser
\* being back in WaitEventMsb.
C23_EventFrameForwarded ==
  (env.stream.kind = "event" /\ env.stream.corrupt = "none"
     /\ GentAt(GENT_EVENT_LENGTH)) =>
     /\ rx.nFwd = 1
     /\ env.fwd = <<env.stream.raw>>
     /\ rx.serialRxState = 0

\* C24: the pair (MSB, LSB) fed from WaitEventMsb is accepted, the parser
\* going on to collect the frame, if and only if it is in the table of event
\* codes; a pair that reached validation and is not in the table leaves the
\* parser in WaitEventMsb right after the second byte, and the byte that
\* follows is not added to it.  An MSB above 0x12 is skipped, so that its
\* pair is never accepted and the LSB is looked at as a first byte.
C24_PairAccepted ==
  env.stream.kind = "pair" =>
    LET m == env.stream.pair[1]
        l == env.stream.pair[2]
    IN /\ env.pos = 2 =>
            /\ (rx.serialRxState \in {2, 3} /\ env.pre.serialRxState = 1)
                  <=> PermittedPair(m, l)
            /\ (m <= GENT_MSB_MAX /\ ~PermittedPair(m, l)) => rx.serialRxState = 0
            /\ m > GENT_MSB_MAX => env.pre.serialRxState = 0
       /\ (env.pos = 3 /\ m <= GENT_MSB_MAX /\ ~PermittedPair(m, l)) =>
            /\ rx.serialRxState = 0
            /\ rx.serialRxBuffer = env.pre.serialRxBuffer
            /\ rx.i = env.pre.i
            /\ env.fwd = << >>

\* C24 witness: the pair (0, 7) has been rejected
C24_Witness ==
  /\ env.stream.kind = "pair"
  /\ env.stream.pair = <<0, 7>>
  /\ env.pos = 2
  /\ env.pre.serialRxState = 1
  /\ rx.serialRxState = 0

\* C25: in WaitEventMsb a byte above 0x12 changes nothing: the parser state,
\* the buffer index, the checksum accumulator, the receive buffer,
\* serialRxLength and the event counters are as they were.
C25_SkipChangesNothing ==
  (env.pos > 0 /\ env.pre.serialRxState = 0 /\ env.byte > GENT_MSB_MAX) =>
     /\ rx.serialRxState = env.pre.serialRxState
     /\ rx.i = env.pre.i
     /\ rx.rxChecksum = env.pre.rxChecksum
     /\ rx.rxExpectedLen = env.pre.rxExpectedLen
     /\ rx.serialRxBuffer = env.pre.serialRxBuffer
     /\ rx.serialRxLength = env.pre.serialRxLength
     /\ rx.totalRxEvents = env.pre.totalRxEvents
     /\ rx.totalDiscardedBytes = env.pre.totalDiscardedBytes
     /\ rx.nFwd = 0

\* C25 witness: the byte 0x13 arrived in WaitEventMsb right after a frame
\* was forwarded, the buffer holding the 59 bytes of that frame
C25_Witness ==
  /\ env.pos > 0
  /\ env.byte = GENT_MSB_MAX + 1
  /\ env.pre.serialRxState = 0
  /\ env.pre.i = GENT_EVENT_LENGTH
  /\ env.pre.totalRxEvents = 1
  /\ rx.i = GENT_EVENT_LENGTH
  /\ rx.serialRxLength = GENT_EVENT_LENGTH

(***************************************************************************)
(* Properties of frames the Binary-CRC-Stuffed parser gives up on          *)
(***************************************************************************)
\* C26 as stated: on a framing error (a raw byte 0xFB..0xFE in the body, or
\* a clash-code follow-up byte above 0x05) no forward call is made for the
\* frame in progress, totalDiscardedBytes grows by the number of bytes
\* collected so far and the parser is back in WaitStart.
C26_FramingErrorNotForwarded ==
  (Cur(env).kind = "framing" /\ FrameDone) =>
     /\ env.fwd = << >>
     /\ rx.totalDiscardedBytes = env.before.totalDiscardedBytes + Len(Cur(env).raw)
     /\ rx.serialRxState = 0

\* C26 amended: on a framing error the bytes collected so far are forwarded
\* when verbose mode is on and not otherwise; either way totalDiscardedBytes
\* grows by their number, no validation is run and the parser is back in
\* WaitStart.
C26_FramingErrorDiscarded ==
  (Cur(env).kind = "framing" /\ FrameDone) =>
     /\ env.fwd = (IF reg.verbose THEN <<Cur(env).raw>> ELSE << >>)
     /\ env.validations = << >>
     /\ rx.totalDiscardedBytes = env.before.totalDiscardedBytes + Len(Cur(env).raw)
     /\ rx.serialRxState = 0

\* C26 witness: verbose mode on, a frame of 8 collected bytes was cut short
\* by the follow-up byte 0xFE and has been forwarded and counted
C26_Witness ==
  /\ reg.verbose
  /\ Cur(env).kind = "framing"
  /\ FrameDone
  /\ Len(Cur(env).raw) = 8
  /\ Cur(env).wire[Len(Cur(env).wire)] = SOM
  /\ Cur(env).wire[Len(Cur(env).wire) - 1] = CLASH_CODE
  /\ env.fwd = <<Cur(env).raw>>
  /\ rx.totalDiscardedBytes = 8

\* C27: validateAdvancedBmsPacket is never run with serialRxLength above 108:
\* a frame of more than 108 bytes from start sentinel to end sentinel is
\* discarded before validation.
C27_ValidatedWithin108 ==
  rx.validated # "no" => rx.serialRxLength <= ADVANCED_MAX_LENGTH

(***************************************************************************)
(* Properties of the identifier-code chain scan, continued.  The scan has  *)
(* run for the packet just completed when validated is "ok", "format" or   *)
(* "hang".                                                                 *)
(***************************************************************************)
KnownCodes == {idCodeTable[k] : k \in 1..NUM_ID_CODES}

\* C28: the chain scan rejects the packet when an identifier code is not a
\* known one or when a length byte would move the offset past
\* serialRxLength - 4, and it reads identifier codes only from the indices
\* 5 .. serialRxLength - 4.
C28_ScanWithinPayload ==
  /\ rx.validated = "ok" =>
        \A k \in rx.codeReads :
           BufRead(rx.serialRxBuffer, k) \in KnownCodes \cup {NO_MORE_MESSAGES}
  /\ (Cur(env).kind = "overlong" /\ FrameDone) => env.validations = <<"format">>
  /\ rx.validated \in {"ok", "format", "hang"} =>
        rx.codeReads \subseteq 5..(rx.serialRxLength - 4)

\* C29: a packet passes format validation only if its chain of messages
\* ends with the code 0xF0 at index serialRxLength - 4, right before the
\* two CRC bytes.
C29_TerminatorBeforeCrc ==
  rx.validated = "ok" =>
     /\ rx.endAt = rx.serialRxLength - 4
     /\ BufRead(rx.serialRxBuffer, rx.serialRxLength - 4) = NO_MORE_MESSAGES

RECURSIVE CrcOver(_, _, _)
CrcOver(q, from, to) ==
  IF to < from THEN <<255, 255>>
  ELSE LET c == CrcOver(q, from, to - 1)
       IN CrcStep(q[to], c[1], c[2])

\* A whole packet of 12 bytes or more has been received: the CRC test has
\* been made
CrcTested ==
  /\ Cur(env).kind \in {"valid", "invalid", "overlong", "trailing", "request"}
  /\ FrameDone

\* C31: a packet passes the CRC test if and only if its last two bytes
\* before the end byte are the high and the low half of the table-driven
\* CRC, started at 0xFF 0xFF, of its bytes 1 .. length - 4; for the Request
\* Node Status packet FE 80 00 00 01 2A 03 01 F0 8C 67 FF that CRC is 8C 67.
C31_CrcTest ==
  /\ CrcOver(requestNodeStatus, 2, 9) = <<140, 103>>
  /\ CrcTested =>
        LET F == Cur(env).raw
            n == Len(F)
            crc == CrcOver(F, 2, n - 3)
        IN /\ Len(env.validations) = 1
           /\ (env.validations[1] # "crc") <=> (F[n - 2] = crc[1] /\ F[n - 1] = crc[2])

\* C31 witness: the Request Node Status packet has been received and has
\* passed the CRC test (its code 0x2A is then turned down by the chain scan)
C31_Witness ==
  /\ Cur(env).raw = requestNodeStatus
  /\ FrameDone
  /\ env.validations = <<"format">>

\* The last byte ended a line that the parser received in Idle
LineEndedInIdle == env.pos > 0 /\ env.pre.serialRxState = 0 /\ env.byte = LF

\* C32: in Idle a line of more than 42 characters, its terminator counted,
\* is discarded and the parser stays in Idle: when the line has ended the
\* parser is in Idle with nothing collected.
C32_LongLineDiscardedInIdle ==
  (LineEndedInIdle /\ env.col > ADVANCED_ASCII_LINE_LENGTH)
     => rx.serialRxState = 0 /\ rx.serialRxLength = 0

\* The number of lines of a frame that ends with a blank line
NonBlankLines(F) == Cardinality({k \in 1..Len(F) : F[k] = LF}) - 1

\* The message sent has more lines or more characters than a message may have
ExceedsBounds(S) ==
  \/ Len(S.lines) > ADVANCED_ASCII_MAX_LINES
  \/ Len(S.text) > ADVANCED_ASCII_MAX_LENGTH

\* C33: every message forwarded by the Line-Oriented-ASCII parser has at
\* most 8 non-blank lines and at most 312 bytes; a message with more lines
\* or more bytes has moved the parser to ErrorRecovery and has not been
\* forwarded when its last byte has been received.
C33_ForwardedWithinBounds ==
  /\ rx.nFwd > 0 =>
       /\ Len(rx.fwdFrame) <= ADVANCED_ASCII_MAX_LENGTH
       /\ NonBlankLines(rx.fwdFrame) <= ADVANCED_ASCII_MAX_LINES
  /\ (env.pos = Len(env.stream.wire) /\ ExceedsBounds(env.stream)) =>
       /\ env.aborted
       /\ \A k \in 1..Len(env.fwd) : env.fwd[k] # env.stream.wire
                                       /\ env.fwd[k] # env.stream.text

\* C33 witness: a message of 8 lines and, with its blank line, 312 bytes
\* has been forwarded
C33_Witness ==
  /\ rx.nFwd > 0
  /\ Len(rx.fwdFrame) = ADVANCED_ASCII_MAX_LENGTH
  /\ NonBlankLines(rx.fwdFrame) = ADVANCED_ASCII_MAX_LINES
  /\ rx.fwdFrame = env.stream.wire

\* The last byte ended a line that the parser received in Collecting
LineEndedInCollecting == env.pos > 0 /\ env.pre.serialRxState = 1 /\ env.byte = LF

\* That line is a blank line: exactly <cr><lf>
BlankLine == env.col = 2 /\ env.prev = CR

\* With that line the message is within the line-length, line-count and
\* total-length bounds
LineWithinBounds ==
  /\ env.col <= ADVANCED_ASCII_LINE_LENGTH
  /\ env.pre.lineCount < ADVANCED_ASCII_MAX_LINES
  /\ env.pre.serialRxLength < ADVANCED_ASCII_MAX_LENGTH

\* The buffer ends with the line just received, and the parser is in
\* Collecting
LineAppended ==
  /\ rx.serialRxState = 1
  /\ rx.serialRxLength = env.pre.serialRxLength + 1
  /\ rx.serialRxLength >= env.col
  /\ \A k \in 1..env.col :
       BufRead(rx.serialRxBuffer, rx.serialRxLength - k) = env.stream.wire[env.pos + 1 - k]

\* C34 as stated: in Collecting every line that is not blank and within the
\* bounds is appended and leaves the parser in Collecting, lines of one or
\* two characters included.
C34_EveryLineAppended ==
  (LineEndedInCollecting /\ ~BlankLine /\ LineWithinBounds) => LineAppended

\* C34: in Collecting every line of three or more characters that is within
\* the bounds is appended and leaves the parser in Collecting; a line of one
\* or two characters that is not <cr><lf> is a format error and moves the
\* parser to ErrorRecovery.
C34_LineOfThreeAppended ==
  (LineEndedInCollecting /\ ~BlankLine /\ LineWithinBounds) =>
     IF env.col > 2 THEN LineAppended ELSE rx.serialRxState = 2

\* C34 witness: a line of three characters has been appended in Collecting
C34_Witness ==
  /\ LineEndedInCollecting /\ ~BlankLine /\ LineWithinBounds
  /\ env.col = 3
  /\ LineAppended

\* The last byte was received in ErrorRecovery
ReceivedInRecovery == env.pos > 0 /\ env.pre.serialRxState = 2

\* C35: in ErrorRecovery the parser stores no bytes and makes no forward
\* call, and it returns to Idle exactly when a blank line (<cr><lf>
\* immediately after a line feed) has been received: the byte that ends
\* such a blank line resets the parser, and no other byte does.
C35_RecoveryEndsAtBlankLine ==
  ReceivedInRecovery =>
     /\ rx.serialRxBuffer = env.pre.serialRxBuffer
     /\ rx.nFwd = 0
     /\ rx.serialRxState \in {0, 2}
     /\ rx.serialRxState = 0 <=> (env.byte = LF /\ BlankLine)

\* C36: no byte of a message that was aborted to ErrorRecovery, from its
\* first line to its terminating blank line, is part of a message forwarded
\* later: once the parser has been in ErrorRecovery, no forward call is made
\* while the rest of that message and its blank line are received.
C36_AbortedMessageNotForwarded == env.aborted => rx.nFwd = 0

\* C37: a Transfer Encoder call whose encoding succeeds publishes exactly
\* once, and what it encodes and publishes are the first Length[0] + 4 bytes
\* of the TransferRecord, which are the 16-byte transfer header followed by
\* the whole EventRecord: its 12-byte header and all n bytes of the frame.
C37_PublishesWholeRecord ==
  (rx.nFwd > 0 /\ rx.base64Ok) =>
     /\ rx.nPub = 1
     /\ rx.publishLen = rx.nimbusTransferMessage.Length[1] + TYPE_AND_LENGTH_FIELDS
     /\ rx.publishLen = (TRANSFER_HEADER_LENGTH + TYPE_AND_LENGTH_FIELDS)
                        + (EVENT_TIMESTAMP_LENGTH + TYPE_AND_LENGTH_FIELDS)
                        + Len(rx.fwdFrame)

\* The last step was a poll, begun with no byte available or with no
\* protocol active
IdlePoll ==
  /\ env.last.step = "poll"
  /\ (~env.last.avail \/ env.last.handler = "null")

\* The last step was a poll with a byte available and a protocol active
BytePoll ==
  /\ env.last.step = "poll"
  /\ env.last.avail
  /\ env.last.handler # "null"

\* C38: a poll consumes at most one byte and delivers it, in arrival order,
\* to the byte-handler of the active protocol and to no other; a poll with
\* no byte available, or with no protocol active, changes no parser or
\* encoder state.
C38_PollDeliversOneByte ==
  /\ env.last.step = "poll" =>
       /\ env.fifo \in {env.last.fifo} \cup
            (IF env.last.fifo # << >> THEN {Tail(env.last.fifo)} ELSE {})
       /\ env.last.avail <=> env.fifo # env.last.fifo
  /\ IdlePoll => rx = env.last.rx
  /\ BytePoll =>
       /\ env.last.handler = RxHandlerOf(reg.currentId)
       /\ rx = protocolRxHandler(RxHandlerOf(reg.currentId), env.last.rx,
                                 Head(env.last.fifo)[2], reg)
       /\ env.delivered[Len(env.delivered)].k = Head(env.last.fifo)[1]
  /\ \A m, n \in 1..Len(env.delivered) :
       /\ m < n => env.delivered[m].k < env.delivered[n].k
       /\ env.delivered[m].to = RxHandlerOf(env.delivered[m].active)

\* C38 witness: two bytes have been delivered by two polls, and the parser
\* has advanced with the second
C38_Witness ==
  /\ BytePoll
  /\ Len(env.delivered) = 2
  /\ rx # env.last.rx
  /\ rx.serialRxState # env.last.rx.serialRxState

C40_IdFollowsEventCount ==
  rx.uniqueTransferId = (rx.totalRxEvents + 1) % 256

\* C40 witness: the 256th forward call has been made, its encoding failed,
\* and the next transfer id is 1 again
C40_Witness ==
  /\ rx.nFwd = 1
  /\ env.failed
  /\ rx.totalRxEvents = 256
  /\ rx.uniqueTransferId = 1

================================================================================
